---- MODULE Spec2Model ----
(***************************************************************************)
(* A model of the resume-processing pipeline of AI_Resume_Analyser:        *)
(*   - the job progress tracker   (services/jobProgress.service.ts)        *)
(*   - the processing run         (services/resume.service.ts,             *)
(*                                 jobs/queue.ts, jobs/workers.ts)         *)
(*   - the matching engine        (services/matching.service.ts,           *)
(*                                 groq.service.ts, utils/helpers.ts)      *)
(*   - the text extraction        (services/pdfExtraction.service.ts)      *)
(*   - the embedding service      (services/embedding.service.ts)          *)
(*   - the skill gap aggregation  (services/skillGap.service.ts)           *)
(* The specifications share the variables: SpecTracker drives the          *)
(* tracker's methods with arbitrary arguments, SpecAdvance drives          *)
(* updateStage over the whole local-percent range, SpecRun runs the queue  *)
(* worker over processResume, and SpecMatch runs the matching service.     *)
(* SpecLife runs the worker under fairness with the resume deleted at any  *)
(* time, SpecOcr runs OCR attempts side by side in the shared temporary    *)
(* directory, and SpecShortlist runs updateMatchStatus beside              *)
(* calculateMatch.  SpecScore, SpecExtract, SpecEmbed, SpecRetry and       *)
(* SpecAggregate apply the functions of the scoring, of the extraction, of *)
(* the embedding, of the retries and of the aggregation to bounded inputs, *)
(* one call in a behaviour, recorded in lastOp.                            *)
(***************************************************************************)
EXTENDS Integers, Sequences, FiniteSets, TLC

VARIABLES
  redisEnabled,   \* config.features.enableRedis: the cache has a client
  redis,          \* the Redis keyspace: key -> stored (JSON) value
  lastOp,         \* the method or function called last, and what it returned
  resumes,        \* table resumes: id -> [status, processingError, rawText]
  resumeAnalyses, \* table resume_analyses: resume id -> analysis row
  queueJobs,      \* queue resume-processing: job id -> [resumeId, attemptsMade, state]
  pc,             \* the worker's position in processResume, per active job
  caught,         \* the error message caught by processResume, per job
  faults,         \* the external calls that have thrown so far
  jobAnalyses,    \* table job_analyses: job id -> analysis row
  matchScores,    \* table match_scores: a set of rows
  groqApiKey,     \* config.groq.apiKey is set
  calls,          \* the calls of the matching service, in the order they began
  tempDir,        \* the files of uploads/temp_ocr: name -> the OCR attempt that wrote it
  ocrRuns         \* the OCR attempts: attempt -> its position and locals

trackerVars == <<redisEnabled, redis, lastOp>>
dbVars      == <<resumes, resumeAnalyses>>
runVars     == <<queueJobs, pc, caught, faults>>
matchVars   == <<jobAnalyses, matchScores, groqApiKey, calls>>
ocrVars     == <<tempDir, ocrRuns>>
vars        == <<redisEnabled, redis, lastOp, resumes, resumeAnalyses,
                 queueJobs, pc, caught, faults,
                 jobAnalyses, matchScores, groqApiKey, calls,
                 tempDir, ocrRuns>>

(***************************************************************************)
(* Bounds of the model                                                     *)
(***************************************************************************)
\* external calls (extraction, analysis, embedding) that throw in one behaviour
MaxFaults == 2

ResumeIds     == {"r1", "r2"}
\* the queue jobs ever added to resume-processing (BullMQ numbers them 1, 2, ...)
JobIds        == {1, 2}
\* the resumes uploaded in SpecRun
RunResumes    == {"r1", "r2"}
\* the job id the tracker's methods are driven with in SpecTracker
TrackerJobs   == {1}
\* local stage percents the tracker's methods are driven with in SpecTracker
Percents      == {0, 50, 100}
ErrorMessages == {"boom", "bang"}

Min(a, b) == IF a < b THEN a ELSE b
Max(a, b) == IF a > b THEN a ELSE b

\* Math.round(num / den) for den > 0: the nearest integer, halves going up
MathRound(num, den) == (2 * num + den) \div (2 * den)

(***************************************************************************)
(* config/redis.ts: the cache                                              *)
(***************************************************************************)
Null == [null |-> TRUE]
Undefined == "undefined"

ProgressKey(jobId)     == <<"job:progress:", jobId>>
ResumeJobKey(resumeId) == <<"resume:job:", resumeId>>

\* cache.get(key) !== null
cacheHas(store, key) == redisEnabled /\ key \in DOMAIN store

\* cache.get(key), for a key that cacheHas
cacheGet(store, key) == store[key]

\* cache.set(key, value, ttl): nothing is written without a client
cacheSet(store, key, value) ==
  IF ~redisEnabled THEN store
  ELSE [k \in (DOMAIN store) \cup {key} |-> IF k = key THEN value ELSE store[k]]

\* cache.del(key)
cacheDel(store, key) ==
  IF ~redisEnabled THEN store
  ELSE [k \in (DOMAIN store) \ {key} |-> store[k]]

(***************************************************************************)
(* services/jobProgress.service.ts                                         *)
(***************************************************************************)
JOB_STAGES ==
  [ QUEUED                |-> [order |-> 0,  weight |-> 0,  description |-> "Waiting in queue"],
    UPLOADING             |-> [order |-> 1,  weight |-> 5,  description |-> "Uploading file"],
    EXTRACTING            |-> [order |-> 2,  weight |-> 20, description |-> "Extracting text from PDF"],
    ANALYZING             |-> [order |-> 3,  weight |-> 50, description |-> "AI analyzing resume content"],
    GENERATING_EMBEDDINGS |-> [order |-> 4,  weight |-> 15, description |-> "Generating semantic embeddings"],
    MATCHING_JOBS         |-> [order |-> 5,  weight |-> 8,  description |-> "Finding matching job opportunities"],
    FINALIZING            |-> [order |-> 6,  weight |-> 2,  description |-> "Saving analysis results"],
    COMPLETED             |-> [order |-> 7,  weight |-> 0,  description |-> "Analysis complete"],
    FAILED                |-> [order |-> -1, weight |-> 0,  description |-> "Processing failed"] ]

JobStage == DOMAIN JOB_STAGES

\* the loop of calculateOverallProgress: the weights of the entries of keys
\* whose order is below the given order
RECURSIVE baseProgress(_, _)
baseProgress(keys, order) ==
  IF keys = {} THEN 0
  ELSE LET key == CHOOSE k \in keys : TRUE
           info == JOB_STAGES[key]
       IN  (IF info.order < order THEN info.weight ELSE 0)
             + baseProgress(keys \ {key}, order)

\* a bug the claims must notice: the current stage's weight counted as done
calculateOverallProgress_le(stage, stageProgress) ==
  LET stageInfo == JOB_STAGES[stage]
  IN  IF stage = "COMPLETED" THEN 100
      ELSE IF stage = "FAILED" THEN 0
      ELSE Min(99, MathRound(
             100 * baseProgress(JobStage, stageInfo.order + 1)
               + stageProgress * stageInfo.weight, 100))

\* a bug the claims must notice: no cap at 99
calculateOverallProgress_nocap(stage, stageProgress) ==
  LET stageInfo == JOB_STAGES[stage]
  IN  IF stage = "COMPLETED" THEN 100
      ELSE IF stage = "FAILED" THEN 0
      ELSE MathRound(
             100 * baseProgress(JobStage, stageInfo.order)
               + stageProgress * stageInfo.weight, 100)

calculateOverallProgress(stage, stageProgress) ==
  LET stageInfo == JOB_STAGES[stage]
  IN  IF stage = "COMPLETED" THEN 100
      ELSE IF stage = "FAILED" THEN 0
      ELSE Min(99, MathRound(
             100 * baseProgress(JobStage, stageInfo.order)
               + stageProgress * stageInfo.weight, 100))

\* saveProgress: the record under its job key, the job id under its resume key
saveProgress(store, progress) ==
  cacheSet(cacheSet(store, ProgressKey(progress.jobId), progress),
           ResumeJobKey(progress.resumeId), progress.jobId)

\* getProgress(jobId) !== null
hasProgress(store, jobId) == cacheHas(store, ProgressKey(jobId))

\* getProgress(jobId), for a job that hasProgress
getProgress(store, jobId) == cacheGet(store, ProgressKey(jobId))

\* Each method below gives [store |-> the keyspace after it, ret |-> its result].
\* JSON.stringify drops the fields that are undefined: Undefined stands for a
\* field that is absent from the stored record.
initializeJob(store, jobId, resumeId) ==
  LET progress == [ jobId         |-> jobId,
                    resumeId      |-> resumeId,
                    stage         |-> "QUEUED",
                    progress      |-> 0,
                    stageProgress |-> 0,
                    message       |-> JOB_STAGES["QUEUED"].description,
                    completedAt   |-> Undefined,
                    error         |-> Undefined ]
  IN  [store |-> saveProgress(store, progress), ret |-> progress]

\* a bug the claims must notice: a record is written though none existed
updateStage_noguard(store, jobId, stage, stageProgress) ==
  LET existing == IF hasProgress(store, jobId) THEN getProgress(store, jobId)
                  ELSE initializeJob(store, jobId, "r1").ret
      updated  == [existing EXCEPT
                     !.stage         = stage,
                     !.progress      = calculateOverallProgress(stage, stageProgress),
                     !.stageProgress = stageProgress,
                     !.message       = JOB_STAGES[stage].description,
                     !.completedAt   = IF stage = "COMPLETED" THEN "set" ELSE Undefined]
  IN  [store |-> saveProgress(store, updated), ret |-> updated]

updateStage(store, jobId, stage, stageProgress) ==
  IF ~hasProgress(store, jobId) THEN [store |-> store, ret |-> Null]
  ELSE
    LET existing == getProgress(store, jobId)
        updated  == [existing EXCEPT
                       !.stage         = stage,
                       !.progress      = calculateOverallProgress(stage, stageProgress),
                       !.stageProgress = stageProgress,
                       !.message       = JOB_STAGES[stage].description,
                       !.completedAt   = IF stage = "COMPLETED" THEN "set" ELSE Undefined]
    IN  [store |-> saveProgress(store, updated), ret |-> updated]

\* message is the optional third argument (Undefined when it is not given)
updateStageProgress(store, jobId, stageProgress, message) ==
  IF ~hasProgress(store, jobId) THEN [store |-> store, ret |-> Null]
  ELSE
    LET existing == getProgress(store, jobId)
        updated  == [existing EXCEPT
                       !.progress      = calculateOverallProgress(existing.stage, stageProgress),
                       !.stageProgress = stageProgress,
                       !.message       = IF message # Undefined THEN message
                                         ELSE existing.message]
    IN  [store |-> saveProgress(store, updated), ret |-> updated]

\* a bug the claims must notice: the percent of the failed stage is kept
markFailed_keeps(store, jobId, error) ==
  IF ~hasProgress(store, jobId) THEN [store |-> store, ret |-> Null]
  ELSE
    LET existing == getProgress(store, jobId)
        updated  == [existing EXCEPT
                       !.stage    = "FAILED",
                       !.message  = "Processing failed",
                       !.error    = error]
    IN  [store |-> saveProgress(store, updated), ret |-> updated]

markFailed(store, jobId, error) ==
  IF ~hasProgress(store, jobId) THEN [store |-> store, ret |-> Null]
  ELSE
    LET existing == getProgress(store, jobId)
        updated  == [existing EXCEPT
                       !.stage    = "FAILED",
                       !.progress = 0,
                       !.message  = "Processing failed",
                       !.error    = error]
    IN  [store |-> saveProgress(store, updated), ret |-> updated]

markCompleted(store, jobId) == updateStage(store, jobId, "COMPLETED", 100)

\* getProgressByResumeId(resumeId) !== null
hasProgressByResumeId(store, resumeId) ==
  /\ cacheHas(store, ResumeJobKey(resumeId))
  /\ hasProgress(store, cacheGet(store, ResumeJobKey(resumeId)))

getProgressByResumeId(store, resumeId) ==
  getProgress(store, cacheGet(store, ResumeJobKey(resumeId)))

deleteProgress(store, jobId) ==
  LET afterIndex == IF hasProgress(store, jobId)
                    THEN cacheDel(store, ResumeJobKey(getProgress(store, jobId).resumeId))
                    ELSE store
  IN  [store |-> cacheDel(afterIndex, ProgressKey(jobId)), ret |-> Null]

(***************************************************************************)
(* SpecTracker: the tracker's methods, called in any order with any        *)
(* arguments                                                               *)
(***************************************************************************)
NoOp == [op |-> "none", jobId |-> 0, args |-> <<>>, ret |-> Null]

EmptyStore == [k \in {} |-> Null]

\* no OCR attempt has been made and uploads/temp_ocr has no files
InitOcr ==
  /\ tempDir = [f \in {} |-> Null]
  /\ ocrRuns = [e \in {} |-> Null]

InitTables ==
  /\ resumes = [r \in {} |-> Null]
  /\ resumeAnalyses = [r \in {} |-> Null]
  /\ queueJobs = [j \in {} |-> Null]
  /\ pc = [j \in {} |-> Null]
  /\ caught = [j \in {} |-> Null]
  /\ faults = 0
  /\ jobAnalyses = [j \in {} |-> Null]
  /\ matchScores = {}
  /\ groqApiKey = FALSE
  /\ calls = <<>>
  /\ InitOcr

InitTracker ==
  /\ redisEnabled \in BOOLEAN
  /\ redis = EmptyStore
  /\ lastOp = NoOp
  /\ InitTables

Call(name, jobId, args, res) ==
  /\ redis' = res.store
  /\ lastOp' = [op |-> name, jobId |-> jobId, args |-> args, ret |-> res.ret]
  /\ UNCHANGED <<ocrVars, matchVars, redisEnabled, dbVars, runVars>>

InitializeJob(j, r)   == Call("initializeJob", j, <<r>>, initializeJob(redis, j, r))
UpdateStage(j, s, p)  == Call("updateStage", j, <<s, p>>, updateStage(redis, j, s, p))
UpdateStageProgress(j, p, m) ==
  Call("updateStageProgress", j, <<p, m>>, updateStageProgress(redis, j, p, m))
MarkFailed(j, e)      == Call("markFailed", j, <<e>>, markFailed(redis, j, e))
MarkCompleted(j)      == Call("markCompleted", j, <<>>, markCompleted(redis, j))
DeleteProgress(j)     == Call("deleteProgress", j, <<>>, deleteProgress(redis, j))

NextTracker ==
  \/ \E j \in TrackerJobs, r \in ResumeIds : InitializeJob(j, r)
  \/ \E j \in TrackerJobs, s \in JobStage, p \in Percents : UpdateStage(j, s, p)
  \/ \E j \in TrackerJobs, p \in Percents, m \in {Undefined, "Still working"} :
       UpdateStageProgress(j, p, m)
  \/ \E j \in TrackerJobs, e \in ErrorMessages : MarkFailed(j, e)
  \/ \E j \in TrackerJobs : MarkCompleted(j)
  \/ \E j \in TrackerJobs : DeleteProgress(j)

SpecTracker == InitTracker /\ [][NextTracker]_vars

(***************************************************************************)
(* SpecAdvance: one job, initialised and then advanced with any stage and  *)
(* any local percent of 0..100                                             *)
(***************************************************************************)
\* the local percent is an int of [0,100] (JobProgress.stageProgress)
MaxPercent == 100

NextAdvance ==
  \/ \E j \in TrackerJobs : InitializeJob(j, "r1")
  \/ \E j \in TrackerJobs, s \in JobStage, p \in 0..MaxPercent : UpdateStage(j, s, p)

SpecAdvance == InitTracker /\ [][NextAdvance]_vars

(***************************************************************************)
(* SpecRun: resumes are uploaded, the queue worker runs processResume on   *)
(* each queue job (retrying a failed job), the candidate reprocesses       *)
(* failed resumes.  BullMQ is enabled (jobs/queue.ts), and no resume is    *)
(* deleted.                                                                *)
(***************************************************************************)
\* defaultJobOptions.attempts
Attempts == 3
\* workerOptions.concurrency
WorkerConcurrency == 5

Put(f, k, v) == [x \in (DOMAIN f) \cup {k} |-> IF x = k THEN v ELSE f[x]]

ResumeKey(resumeId)         == <<"resume:", resumeId>>
ResumeAnalysisKey(resumeId) == <<"resume:analysis:", resumeId>>

ExtractionFailed == "Failed to extract text from PDF"
AnalysisFailed   == "Failed to parse AI response"
EmbeddingFailed  == "Failed to generate embedding"
UniqueViolation  == "Unique constraint failed on the fields: (resume_id)"

\* resumeQueue.add: a job for the resume joins the queue
queueAdd(jobs, resumeId) ==
  Put(jobs, Cardinality(DOMAIN jobs) + 1,
      [resumeId |-> resumeId, attemptsMade |-> 0, state |-> "waiting",
       failedReason |-> Undefined])

QueueHasRoom == Cardinality(DOMAIN queueJobs) < Cardinality(JobIds)

Enqueue(resumeId) ==
  LET id == Cardinality(DOMAIN queueJobs) + 1
  IN  /\ queueJobs' = queueAdd(queueJobs, resumeId)
      /\ pc' = Put(pc, id, "idle")
      /\ caught' = Put(caught, id, Undefined)
      /\ UNCHANGED faults

\* resumeService.createResume
CreateResume(r) ==
  /\ r \notin DOMAIN resumes
  /\ QueueHasRoom
  /\ resumes' = Put(resumes, r, [status |-> "PENDING", processingError |-> Undefined,
                                 rawText |-> Undefined])
  /\ Enqueue(r)
  /\ UNCHANGED <<ocrVars, matchVars, trackerVars, resumeAnalyses>>

\* resumeService.reprocessResume
ReprocessResume(r) ==
  /\ r \in DOMAIN resumes
  /\ resumes[r].status = "FAILED"
  /\ QueueHasRoom
  /\ resumes' = [resumes EXCEPT ![r].status = "PENDING",
                                ![r].processingError = Undefined]
  /\ Enqueue(r)
  /\ UNCHANGED <<ocrVars, matchVars, trackerVars, resumeAnalyses>>

ActiveJobs == {j \in DOMAIN queueJobs : queueJobs[j].state = "active"}

At(j, where) == j \in ActiveJobs /\ pc[j] = where
Goto(j, where) == pc' = [pc EXCEPT ![j] = where]
ResumeOf(j) == queueJobs[j].resumeId

\* the worker takes a waiting job and calls processResume(resumeId, job.id)
WorkerStart(j) ==
  /\ j \in DOMAIN queueJobs
  /\ queueJobs[j].state = "waiting"
  /\ Cardinality(ActiveJobs) < WorkerConcurrency
  /\ queueJobs' = [queueJobs EXCEPT ![j].state = "active"]
  /\ Goto(j, "findResume")
  /\ UNCHANGED <<ocrVars, matchVars, trackerVars, dbVars, caught, faults>>

\* processResume: prisma.resume.findUnique finds the resume
FindResume(j) ==
  /\ At(j, "findResume")
  /\ ResumeOf(j) \in DOMAIN resumes
  /\ Goto(j, "initializeJob")
  /\ UNCHANGED <<ocrVars, matchVars, trackerVars, dbVars, queueJobs, caught, faults>>

\* processResume: jobProgressService.initializeJob(jobId, resumeId)
InitializeProgress(j) ==
  /\ At(j, "initializeJob")
  /\ redis' = initializeJob(redis, j, ResumeOf(j)).store
  /\ Goto(j, "setProcessing")
  /\ UNCHANGED <<ocrVars, matchVars, redisEnabled, lastOp, dbVars, queueJobs, caught, faults>>

\* processResume: status := PROCESSING
SetProcessing(j) ==
  /\ At(j, "setProcessing")
  /\ ResumeOf(j) \in DOMAIN resumes
  /\ resumes' = [resumes EXCEPT ![ResumeOf(j)].status = "PROCESSING"]
  /\ Goto(j, "stageExtracting0")
  /\ UNCHANGED <<ocrVars, matchVars, trackerVars, resumeAnalyses, queueJobs, caught, faults>>

\* the updateStage calls of processResume: where, with what, and what follows
StageReports ==
  [ stageExtracting0   |-> [stage |-> "EXTRACTING", percent |-> 0, next |-> "extractText"],
    stageExtracting100 |-> [stage |-> "EXTRACTING", percent |-> 100, next |-> "stageAnalyzing0"],
    stageAnalyzing0    |-> [stage |-> "ANALYZING", percent |-> 0, next |-> "analyzeResume"],
    stageAnalyzing100  |-> [stage |-> "ANALYZING", percent |-> 100, next |-> "stageEmbeddings0"],
    stageEmbeddings0   |-> [stage |-> "GENERATING_EMBEDDINGS", percent |-> 0, next |-> "generateEmbedding"],
    stageEmbeddings100 |-> [stage |-> "GENERATING_EMBEDDINGS", percent |-> 100, next |-> "stageFinalizing0"],
    stageFinalizing0   |-> [stage |-> "FINALIZING", percent |-> 0, next |-> "createAnalysis"] ]

\* processResume: jobProgressService.updateStage(jobId, stage, percent)
ReportStage(j) ==
  /\ j \in ActiveJobs
  /\ pc[j] \in DOMAIN StageReports
  /\ LET step == StageReports[pc[j]]
     IN  /\ redis' = updateStage(redis, j, step.stage, step.percent).store
         /\ Goto(j, step.next)
  /\ UNCHANGED <<ocrVars, matchVars, redisEnabled, lastOp, dbVars, queueJobs, caught, faults>>

\* an awaited call of the try block throws: control goes to the catch block
Throw(j, message) ==
  /\ caught' = [caught EXCEPT ![j] = message]
  /\ Goto(j, "catchSetFailed")

\* an external service fails
Fault ==
  /\ faults < MaxFaults
  /\ faults' = faults + 1

\* processResume: extractTextFromPdf returns a text of 50 characters or more
ExtractTextOk(j) ==
  /\ At(j, "extractText")
  /\ Goto(j, "saveRawText")
  /\ UNCHANGED <<ocrVars, matchVars, trackerVars, dbVars, queueJobs, caught, faults>>

\* processResume: extractTextFromPdf throws (it wraps every error)
ExtractTextThrows(j) ==
  /\ At(j, "extractText")
  /\ Fault
  /\ Throw(j, ExtractionFailed)
  /\ UNCHANGED <<ocrVars, matchVars, trackerVars, dbVars, queueJobs>>

\* processResume: rawText is stored
SaveRawText(j) ==
  /\ At(j, "saveRawText")
  /\ ResumeOf(j) \in DOMAIN resumes
  /\ resumes' = [resumes EXCEPT ![ResumeOf(j)].rawText = "text"]
  /\ Goto(j, "stageExtracting100")
  /\ UNCHANGED <<ocrVars, matchVars, trackerVars, resumeAnalyses, queueJobs, caught, faults>>

\* processResume: groqService.analyzeResume returns
AnalyzeResumeOk(j) ==
  /\ At(j, "analyzeResume")
  /\ Goto(j, "stageAnalyzing100")
  /\ UNCHANGED <<ocrVars, matchVars, trackerVars, dbVars, queueJobs, caught, faults>>

\* processResume: groqService.analyzeResume throws
AnalyzeResumeThrows(j) ==
  /\ At(j, "analyzeResume")
  /\ Fault
  /\ Throw(j, AnalysisFailed)
  /\ UNCHANGED <<ocrVars, matchVars, trackerVars, dbVars, queueJobs>>

\* processResume: embeddingService.generateEmbedding returns
GenerateEmbeddingOk(j) ==
  /\ At(j, "generateEmbedding")
  /\ Goto(j, "stageEmbeddings100")
  /\ UNCHANGED <<ocrVars, matchVars, trackerVars, dbVars, queueJobs, caught, faults>>

\* processResume: embeddingService.generateEmbedding throws
GenerateEmbeddingThrows(j) ==
  /\ At(j, "generateEmbedding")
  /\ Fault
  /\ Throw(j, EmbeddingFailed)
  /\ UNCHANGED <<ocrVars, matchVars, trackerVars, dbVars, queueJobs>>

\* processResume: prisma.resumeAnalysis.create inserts the row
CreateAnalysisOk(j) ==
  /\ At(j, "createAnalysis")
  /\ ResumeOf(j) \in DOMAIN resumes
  /\ ResumeOf(j) \notin DOMAIN resumeAnalyses
  /\ resumeAnalyses' = Put(resumeAnalyses, ResumeOf(j), [resumeId |-> ResumeOf(j)])
  /\ Goto(j, "setAnalyzed")
  /\ UNCHANGED <<ocrVars, matchVars, trackerVars, resumes, queueJobs, caught, faults>>

\* processResume: prisma.resumeAnalysis.create is refused by the unique index
\* resume_analyses_resume_id_key
CreateAnalysisThrows(j) ==
  /\ At(j, "createAnalysis")
  /\ ResumeOf(j) \in DOMAIN resumeAnalyses
  /\ Throw(j, UniqueViolation)
  /\ UNCHANGED <<ocrVars, matchVars, trackerVars, dbVars, queueJobs, faults>>

\* processResume: status := ANALYZED
SetAnalyzed(j) ==
  /\ At(j, "setAnalyzed")
  /\ ResumeOf(j) \in DOMAIN resumes
  /\ resumes' = [resumes EXCEPT ![ResumeOf(j)].status = "ANALYZED"]
  /\ Goto(j, "clearCache")
  /\ UNCHANGED <<ocrVars, matchVars, trackerVars, resumeAnalyses, queueJobs, caught, faults>>

\* processResume: cache.del of the resume's two cache keys
ClearCache(j) ==
  /\ At(j, "clearCache")
  /\ redis' = cacheDel(cacheDel(redis, ResumeKey(ResumeOf(j))),
                       ResumeAnalysisKey(ResumeOf(j)))
  /\ Goto(j, "markCompleted")
  /\ UNCHANGED <<ocrVars, matchVars, redisEnabled, lastOp, dbVars, queueJobs, caught, faults>>

\* processResume: jobProgressService.markCompleted(jobId), and the return
MarkCompletedAndReturn(j) ==
  /\ At(j, "markCompleted")
  /\ redis' = markCompleted(redis, j).store
  /\ Goto(j, "returned")
  /\ UNCHANGED <<ocrVars, matchVars, redisEnabled, lastOp, dbVars, queueJobs, caught, faults>>

\* processResume, catch: status := FAILED, processingError := the message
CatchSetFailed(j) ==
  /\ At(j, "catchSetFailed")
  /\ ResumeOf(j) \in DOMAIN resumes
  /\ resumes' = [resumes EXCEPT ![ResumeOf(j)].status = "FAILED",
                                ![ResumeOf(j)].processingError = caught[j]]
  /\ Goto(j, "catchMarkFailed")
  /\ UNCHANGED <<ocrVars, matchVars, trackerVars, resumeAnalyses, queueJobs, caught, faults>>

\* a bug the claims must notice: the catch block swallows the error
CatchMarkFailed_swallows(j) ==
  /\ At(j, "catchMarkFailed")
  /\ redis' = markFailed(redis, j, caught[j]).store
  /\ Goto(j, "returned")
  /\ UNCHANGED <<ocrVars, matchVars, redisEnabled, lastOp, dbVars, queueJobs, caught, faults>>

\* processResume, catch: jobProgressService.markFailed(jobId, message), and
\* the error is thrown again
CatchMarkFailed(j) ==
  /\ At(j, "catchMarkFailed")
  /\ redis' = markFailed(redis, j, caught[j]).store
  /\ Goto(j, "thrown")
  /\ UNCHANGED <<ocrVars, matchVars, redisEnabled, lastOp, dbVars, queueJobs, caught, faults>>

\* the worker's processor resolved: the queue job is completed
JobCompleted(j) ==
  /\ At(j, "returned")
  /\ queueJobs' = [queueJobs EXCEPT ![j].state = "completed"]
  /\ Goto(j, "idle")
  /\ UNCHANGED <<ocrVars, matchVars, trackerVars, dbVars, caught, faults>>

\* the worker's processor rejected: the queue retries the job until it has
\* made Attempts attempts
JobFailed(j) ==
  /\ At(j, "thrown")
  /\ queueJobs' = [queueJobs EXCEPT
                     ![j].attemptsMade = @ + 1,
                     ![j].failedReason = caught[j],
                     ![j].state = IF queueJobs[j].attemptsMade + 1 < Attempts
                                  THEN "waiting" ELSE "failed"]
  /\ Goto(j, "idle")
  /\ caught' = [caught EXCEPT ![j] = Undefined]
  /\ UNCHANGED <<ocrVars, matchVars, trackerVars, dbVars, faults>>

ProcessResumeStep(j) ==
  \/ FindResume(j)
  \/ InitializeProgress(j)
  \/ SetProcessing(j)
  \/ ReportStage(j)
  \/ ExtractTextOk(j)
  \/ ExtractTextThrows(j)
  \/ SaveRawText(j)
  \/ AnalyzeResumeOk(j)
  \/ AnalyzeResumeThrows(j)
  \/ GenerateEmbeddingOk(j)
  \/ GenerateEmbeddingThrows(j)
  \/ CreateAnalysisOk(j)
  \/ CreateAnalysisThrows(j)
  \/ SetAnalyzed(j)
  \/ ClearCache(j)
  \/ MarkCompletedAndReturn(j)
  \/ CatchSetFailed(j)
  \/ CatchMarkFailed(j)

NextRun ==
  \/ \E r \in RunResumes : CreateResume(r)
  \/ \E r \in RunResumes : ReprocessResume(r)
  \/ \E j \in JobIds : WorkerStart(j)
  \/ \E j \in JobIds : ProcessResumeStep(j)
  \/ \E j \in JobIds : JobCompleted(j)
  \/ \E j \in JobIds : JobFailed(j)

SpecRun == InitTracker /\ [][NextRun]_vars

(***************************************************************************)
(* Claims about the tracker                                                *)
(***************************************************************************)
Stored(j) == getProgress(redis, j)

\* the step is a call of updateStage for job j that found a record
IsAdvance(j) ==
  /\ lastOp'.op = "updateStage"
  /\ lastOp'.jobId = j
  /\ hasProgress(redis, j)
  /\ hasProgress(redis', j)

\* C1 as stated: across any sequence of updateStage calls made after
\* initializeJob, each with a local percent of 0..100, the stored overall
\* percent never decreases from one call to the next.
C1_AdvanceNeverDecreases ==
  [][\A j \in TrackerJobs :
       IsAdvance(j) => getProgress(redis', j).progress >= Stored(j).progress]_vars

\* the stage named by the call is not ordered before the stored one, and with
\* the same stage the local percent is not below the stored one
MovesForward(old, new) ==
  \/ JOB_STAGES[new.stage].order > JOB_STAGES[old.stage].order
  \/ /\ new.stage = old.stage
     /\ new.stageProgress >= old.stageProgress

\* C1 as amended: an updateStage call that names a stage ordered after the
\* stored one, or the stored stage with a local percent not below the stored
\* one, never decreases the stored overall percent.
C1_ForwardAdvanceNeverDecreases ==
  [][\A j \in TrackerJobs :
       (IsAdvance(j) /\ MovesForward(Stored(j), getProgress(redis', j)))
         => getProgress(redis', j).progress >= Stored(j).progress]_vars

\* C1's case: ANALYZING was advanced to half way, after EXTRACTING
C1_Witness ==
  /\ lastOp.op = "updateStage"
  /\ lastOp.ret # Null
  /\ hasProgress(redis, 1)
  /\ Stored(1).stage = "ANALYZING"
  /\ Stored(1).stageProgress = 50
  /\ Stored(1).progress = 50

\* C2: whatever the record held before, markCompleted stores stage COMPLETED
\* with overall percent 100, and markFailed stores stage FAILED with overall
\* percent 0 and the given error message.
C2_CompleteIs100FailIs0 ==
  \A j \in TrackerJobs :
    /\ (lastOp.op = "markCompleted" /\ lastOp.jobId = j /\ lastOp.ret # Null)
         => /\ hasProgress(redis, j)
            /\ Stored(j) = lastOp.ret
            /\ Stored(j).stage = "COMPLETED"
            /\ Stored(j).progress = 100
    /\ (lastOp.op = "markFailed" /\ lastOp.jobId = j /\ lastOp.ret # Null)
         => /\ hasProgress(redis, j)
            /\ Stored(j) = lastOp.ret
            /\ Stored(j).stage = "FAILED"
            /\ Stored(j).progress = 0
            /\ Stored(j).error = lastOp.args[1]

\* C2's case: markFailed on a record that was half way through a stage
C2_Witness ==
  /\ lastOp.op = "markFailed"
  /\ lastOp.ret # Null
  /\ Stored(1).stageProgress = 50
  /\ Stored(1).error = "bang"
  /\ Stored(1).progress = 0

\* C6: updateStage, updateStageProgress, markFailed and markCompleted called
\* for a job id without a stored record return null and leave the whole
\* keyspace (progress records and resume -> job index) as it was.
C6_MissingRecordIsNoOp ==
  [][\A j \in TrackerJobs :
       ( /\ lastOp'.op \in {"updateStage", "updateStageProgress",
                            "markFailed", "markCompleted"}
         /\ lastOp'.jobId = j
         /\ ~hasProgress(redis, j) )
       => (lastOp'.ret = Null /\ redis' = redis)]_vars

\* C6's case: markFailed returned null while the record was gone and an index
\* entry was still stored
C6_Witness ==
  /\ lastOp.op = "markFailed"
  /\ lastOp.ret = Null
  /\ redisEnabled
  /\ ~hasProgress(redis, 1)
  /\ cacheHas(redis, ResumeJobKey("r1"))

\* the stages of the pipeline in their order
StageChain ==
  << "QUEUED", "UPLOADING", "EXTRACTING", "ANALYZING", "GENERATING_EMBEDDINGS",
     "MATCHING_JOBS", "FINALIZING", "COMPLETED" >>

RECURSIVE ChainWeight(_)
\* the weights of the first n stages of the chain
ChainWeight(n) ==
  IF n = 0 THEN 0 ELSE JOB_STAGES[StageChain[n]].weight + ChainWeight(n - 1)

ChainIndex(stage) == CHOOSE i \in 1..Len(StageChain) : StageChain[i] = stage

\* C7: a stored record of a non-terminal stage s with local percent p has
\* overall percent min(99, round(weights of the stages before s + p/100 *
\* weight(s))); the weights sum to 100; every stored overall percent is in
\* 0..100, and only a COMPLETED record shows 100.
C7_OverallPercentFormula ==
  /\ ChainWeight(Len(StageChain)) = 100
  /\ \A j \in TrackerJobs :
       hasProgress(redis, j) =>
         LET rec == Stored(j)
         IN  /\ rec.progress \in 0..100
             /\ rec.stage # "COMPLETED" => rec.progress # 100
             /\ rec.stage \notin {"COMPLETED", "FAILED"} =>
                  rec.progress =
                    Min(99, MathRound(
                      100 * ChainWeight(ChainIndex(rec.stage) - 1)
                        + rec.stageProgress * JOB_STAGES[rec.stage].weight, 100))

\* C7's case: FINALIZING at local percent 100 is stored as 99, not 100
C7_Witness ==
  /\ lastOp.op = "updateStage"
  /\ hasProgress(redis, 1)
  /\ Stored(1).stage = "FINALIZING"
  /\ Stored(1).stageProgress = 100
  /\ Stored(1).progress = 99

(***************************************************************************)
(* Claims about the processing run                                         *)
(***************************************************************************)
Terminal == {"COMPLETED", "FAILED"}

\* one write of a progress record is a move the state machine allows: the
\* stage is kept, or moves to a later stage of the chain, or becomes FAILED
\* from a non-terminal stage
AllowedMove(old, new) ==
  \/ new.stage = old.stage
  \/ /\ new.stage # "FAILED"
     /\ old.stage # "FAILED"
     /\ ChainIndex(new.stage) > ChainIndex(old.stage)
  \/ /\ new.stage = "FAILED"
     /\ old.stage \notin Terminal

\* C3: the stage of a job's progress record only moves forward along
\* QUEUED -> UPLOADING -> EXTRACTING -> ANALYZING -> GENERATING_EMBEDDINGS ->
\* MATCHING_JOBS -> FINALIZING -> COMPLETED, never back to an earlier stage, and
\* FAILED is entered only from a non-terminal stage.
C3_StageOnlyMovesForward ==
  [][\A j \in JobIds :
       (hasProgress(redis, j) /\ hasProgress(redis', j))
         => AllowedMove(Stored(j), getProgress(redis', j))]_vars

CatchBlock == {"catchSetFailed", "catchMarkFailed", "thrown"}

InFlight(r) == \E j \in ActiveJobs : ResumeOf(j) = r

\* C5: a resume has a persisted analysis row if and only if its status is
\* ANALYZED (stated here for the states in which no run of the resume is in
\* flight, where a half-done run cannot be the excuse).
C5_AnalysisIffAnalyzed ==
  \A r \in DOMAIN resumes :
    ~InFlight(r) => ((r \in DOMAIN resumeAnalyses) <=> (resumes[r].status = "ANALYZED"))

(***************************************************************************)
(* JavaScript numbers: IEEE 754 doubles, for the non-negative values the    *)
(* scores go through.  A natural number is the sequence of its digits in    *)
(* base 2^14 (limbs), lowest first and without high zeros; a double is a     *)
(* mantissa man of 53 bits and an exponent exp, its value man * 2^exp, or    *)
(* Zero.                                                                   *)
(***************************************************************************)
MantissaBits == 53
LimbBits     == 14
LimbBase     == 2 ^ LimbBits

\* the bits of a small integer, lowest first, width of them
IntBits(n, width) == [i \in 1..width |-> (n \div (2 ^ (i - 1))) % 2]

\* the sequence without its high zeros
TrimHigh(seq) ==
  IF \A i \in DOMAIN seq : seq[i] = 0 THEN <<>>
  ELSE SubSeq(seq, 1, CHOOSE i \in DOMAIN seq :
                        seq[i] # 0 /\ \A k \in (i + 1)..Len(seq) : seq[k] = 0)

\* the small integer of at most LimbBits bits
RECURSIVE BitsInt(_)
BitsInt(bits) ==
  IF bits = <<>> THEN 0
  ELSE IF Len(bits) = 1 THEN bits[1]
  ELSE LET half == Len(bits) \div 2
       IN  BitsInt(SubSeq(bits, 1, half))
             + (2 ^ half) * BitsInt(SubSeq(bits, half + 1, Len(bits)))

\* limbs to bits and back
LimbsBits(limbs) ==
  TrimHigh([i \in 1..(LimbBits * Len(limbs)) |->
              (limbs[((i - 1) \div LimbBits) + 1] \div (2 ^ ((i - 1) % LimbBits))) % 2])

BitsLimbs(bits) ==
  TrimHigh([k \in 1..((Len(bits) + LimbBits - 1) \div LimbBits) |->
              BitsInt(SubSeq(bits, LimbBits * (k - 1) + 1,
                             Min(LimbBits * k, Len(bits))))])

IntLimbs(n) == BitsLimbs(TrimHigh(IntBits(n, 30)))

\* the limbs of a sequence of column sums, carries taken along
RECURSIVE Carried(_, _)
Carried(columns, carry) ==
  IF columns = <<>> THEN (IF carry = 0 THEN <<>> ELSE <<carry>>)
  ELSE LET sum == Head(columns) + carry
       IN  <<sum % LimbBase>> \o Carried(Tail(columns), sum \div LimbBase)

LimbAt(limbs, i) == IF i \in DOMAIN limbs THEN limbs[i] ELSE 0

AddLimbs(a, b) ==
  TrimHigh(Carried([i \in 1..Max(Len(a), Len(b)) |-> LimbAt(a, i) + LimbAt(b, i)], 0))

\* the sum of a[i] * b[k + 1 - i] over i in lo..hi
RECURSIVE SumProducts(_, _, _, _, _)
SumProducts(a, b, k, lo, hi) ==
  IF lo > hi THEN 0
  ELSE a[lo] * b[k + 1 - lo] + SumProducts(a, b, k, lo + 1, hi)

MulLimbs(a, b) ==
  IF a = <<>> \/ b = <<>> THEN <<>>
  ELSE TrimHigh(Carried([k \in 1..(Len(a) + Len(b) - 1) |->
                           SumProducts(a, b, k, Max(1, k + 1 - Len(b)),
                                       Min(Len(a), k))], 0))

\* limbs * 2^k
ShiftLeft(limbs, k) ==
  IF limbs = <<>> THEN <<>>
  ELSE [i \in 1..(k \div LimbBits) |-> 0] \o MulLimbs(limbs, <<2 ^ (k % LimbBits)>>)

Zero == [man |-> <<>>, exp |-> 0]

\* bits + 1, for bits that are not all ones
Increment(bits) ==
  LET low == CHOOSE i \in DOMAIN bits : bits[i] = 0 /\ \A k \in 1..(i - 1) : bits[k] = 1
  IN  [i \in DOMAIN bits |-> IF i < low THEN 0 ELSE IF i = low THEN 1 ELSE bits[i]]

\* the double nearest to limbs * 2^exp, a tie going to the even mantissa
RoundToDouble(limbs, exp) ==
  LET bits == LimbsBits(limbs)
      len == Len(bits)
      drop == len - MantissaBits
  IN  IF len = 0 THEN Zero
      ELSE IF drop <= 0
      THEN [man |-> ShiftLeft(limbs, -drop), exp |-> exp + drop]
      ELSE LET kept == SubSeq(bits, drop + 1, len)
               guard == bits[drop]
               sticky == \E i \in 1..(drop - 1) : bits[i] = 1
               up == guard = 1 /\ (sticky \/ kept[1] = 1)
           IN  IF ~up THEN [man |-> BitsLimbs(kept), exp |-> exp + drop]
               ELSE IF \A i \in DOMAIN kept : kept[i] = 1
               THEN [man |-> BitsLimbs([i \in 1..MantissaBits |->
                                          IF i = MantissaBits THEN 1 ELSE 0]),
                     exp |-> exp + drop + 1]
               ELSE [man |-> BitsLimbs(Increment(kept)), exp |-> exp + drop]

\* a number that is an integer
DoubleOfInt(n) == RoundToDouble(IntLimbs(n), 0)

\* x * y
DoubleMul(x, y) ==
  IF x = Zero \/ y = Zero THEN Zero
  ELSE RoundToDouble(MulLimbs(x.man, y.man), x.exp + y.exp)

\* x + y
DoubleAdd(x, y) ==
  IF x = Zero THEN y
  ELSE IF y = Zero THEN x
  ELSE LET exp == Min(x.exp, y.exp)
       IN  RoundToDouble(AddLimbs(ShiftLeft(x.man, x.exp - exp),
                                  ShiftLeft(y.man, y.exp - exp)), exp)

\* a - b on limbs, a >= b
SubLimbs(a, b) ==
  TrimHigh(Carried([i \in 1..Max(Len(a), Len(b)) |-> LimbAt(a, i) - LimbAt(b, i)], 0))

\* x - y, x >= y
DoubleSub(x, y) ==
  IF y = Zero THEN x
  ELSE LET exp == Min(x.exp, y.exp)
       IN  RoundToDouble(SubLimbs(ShiftLeft(x.man, x.exp - exp),
                                  ShiftLeft(y.man, y.exp - exp)), exp)

\* limbs of the fraction rem / n, highest first, and a last limb that says
\* whether anything is left (rem < n)
RECURSIVE FractionLimbs(_, _, _)
FractionLimbs(rem, n, k) ==
  IF k = 0 THEN <<IF rem = 0 THEN 0 ELSE 1>>
  ELSE <<(rem * LimbBase) \div n>>
         \o FractionLimbs((rem * LimbBase) % n, n, k - 1)

Reverse(seq) == [i \in 1..Len(seq) |-> seq[Len(seq) + 1 - i]]

\* limbs of fraction enough for the quotient of two small integers
QuotientLimbs == 5

\* m / n for integers m >= 0 and n > 0
DoubleDivInt(m, n) ==
  IF m = 0 THEN Zero
  ELSE RoundToDouble(TrimHigh(Reverse(FractionLimbs(m % n, n, QuotientLimbs))
                                \o IntLimbs(m \div n)),
                     -(LimbBits * (QuotientLimbs + 1)))

\* Math.round(x), x >= 0: the integer part, and one more if the bit of 1/2 is set
MathRoundDouble(x) ==
  IF x = Zero \/ -x.exp > MantissaBits THEN 0
  ELSE IF x.exp >= 0 THEN BitsInt(LimbsBits(ShiftLeft(x.man, x.exp)))
  ELSE LET bits == LimbsBits(x.man)
       IN  BitsInt(SubSeq(bits, -x.exp + 1, MantissaBits)) + bits[-x.exp]

\* the limbs, highest first, are those of a smaller number of as many limbs
RECURSIVE LimbsLess(_, _)
LimbsLess(a, b) ==
  IF a = <<>> THEN FALSE
  ELSE IF Head(a) # Head(b) THEN Head(a) < Head(b)
  ELSE LimbsLess(Tail(a), Tail(b))

\* x < y
DoubleLess(x, y) ==
  IF y = Zero THEN FALSE
  ELSE IF x = Zero THEN TRUE
  ELSE IF x.exp # y.exp THEN x.exp < y.exp
  ELSE LimbsLess(Reverse(x.man), Reverse(y.man))

DoubleLeq(x, y) == ~DoubleLess(y, x)

(***************************************************************************)
(* utils/helpers.ts and services/groq.service.ts: what calculateMatch uses *)
(***************************************************************************)
\* a string is a sequence of characters; the skills of the samples
JS == <<"J", "S">>
Js == <<"j", "s">>
TS == <<"T", "S">>
Go == <<"G", "o">>
Jj == <<"j">>

\* String.prototype.toLowerCase, on the characters of the samples
LowerChar(c) ==
  CASE c = "J" -> "j"
    [] c = "S" -> "s"
    [] c = "T" -> "t"
    [] c = "G" -> "g"
    [] OTHER -> c

toLowerCase(str) == [i \in DOMAIN str |-> LowerChar(str[i])]

\* String.prototype.includes: sub occurs in str as a run of characters
includes(str, sub) ==
  \E i \in 0..(Len(str) - Len(sub)) : SubSeq(str, i + 1, i + Len(sub)) = sub

\* resumeSkills.some(rs => rs.includes(s) || s.includes(rs))
someIncludes(resumeSkills, s) ==
  \E k \in DOMAIN resumeSkills :
    includes(resumeSkills[k], s) \/ includes(s, resumeSkills[k])

\* a nullable column: no value, or one value
None    == <<>>
Some(x) == <<x>>

\* a || b for a nullable number a
OrElse(a, b) == IF a = None THEN b ELSE IF a[1] = 0 THEN b ELSE a[1]

\* a ? ... : ... for a nullable string a
Truthy(a) == a # None /\ a[1] # ""

\* cosineSimilarity(vecA, vecB): the dot product and the squared magnitude,
\* the similarity being dot / sqrt(magnitudeSq), or 0 when the magnitude is 0
RECURSIVE dotProduct(_, _)
dotProduct(vecA, vecB) ==
  IF vecA = <<>> THEN 0
  ELSE Head(vecA) * Head(vecB) + dotProduct(Tail(vecA), Tail(vecB))

VectorLengthError == "Vectors must have the same length"

cosineSimilarity(vecA, vecB) ==
  IF Len(vecA) # Len(vecB)
  THEN [threw |-> TRUE, error |-> VectorLengthError]
  ELSE [threw |-> FALSE,
        dot |-> dotProduct(vecA, vecB),
        magnitudeSq |-> dotProduct(vecA, vecA) * dotProduct(vecB, vecB)]

\* a * sqrt(m) <= b, for integers a, b and m >= 0
LeqSqrt(a, m, b) ==
  IF a <= 0
  THEN IF b >= 0 THEN TRUE ELSE a * a * m >= b * b
  ELSE IF b < 0 THEN FALSE ELSE a * a * m <= b * b

\* Math.round(((skillSimilarity + 1) / 2) * 100): the largest k with
\* k - 1/2 <= 50 + 50 * dot / sqrt(magnitudeSq)
keywordScoreOf(sim) ==
  IF sim.magnitudeSq = 0 THEN 50
  ELSE CHOOSE k \in 0..100 :
         /\ LeqSqrt(2 * k - 101, sim.magnitudeSq, 100 * sim.dot)
         /\ ~LeqSqrt(2 * k - 99, sim.magnitudeSq, 100 * sim.dot)

\* the weights of calculateMatchScore, as the doubles their literals denote
weights ==
  [skills |-> DoubleDivInt(40, 100), experience |-> DoubleDivInt(25, 100),
   education |-> DoubleDivInt(15, 100), keywords |-> DoubleDivInt(20, 100)]

\* calculateMatchScore(skillMatch, experienceMatch, educationMatch,
\* keywordMatch): Math.round of the sum of the four products, each product and
\* each sum rounded to a double, from left to right
calculateMatchScore(skillMatch, experienceMatch, educationMatch, keywordMatch) ==
  MathRoundDouble(
    DoubleAdd(DoubleAdd(DoubleAdd(DoubleMul(skillMatch, weights.skills),
                                  DoubleMul(experienceMatch, weights.experience)),
                        DoubleMul(educationMatch, weights.education)),
              DoubleMul(keywordMatch, weights.keywords)))

\* String.prototype.trim
IsSpace(c) == c \in {" ", "\n", "\t"}

\* the indices of the characters of str that are not white space
Inked(str) == {i \in DOMAIN str : ~IsSpace(str[i])}

trimStart(str) ==
  IF Inked(str) = {} THEN <<>>
  ELSE SubSeq(str, CHOOSE i \in Inked(str) : \A j \in Inked(str) : i <= j, Len(str))

trimEnd(str) ==
  IF Inked(str) = {} THEN <<>>
  ELSE SubSeq(str, 1, CHOOSE i \in Inked(str) : \A j \in Inked(str) : i >= j)

trim(str) == trimEnd(trimStart(str))

\* the three fallback texts of generateMatchExplanation, as pieces of text;
\* the second piece is the score written out as ${matchScore} writes it
TemplateUnconfigured(matchScore) ==
  <<"Match score: ", ToString(matchScore),
    "%. This is an automated match based on skill alignment.">>
TemplateEmpty(matchScore) == <<"Match score: ", ToString(matchScore), "%">>
TemplateFailed(matchScore) ==
  <<"Match score: ", ToString(matchScore),
    "%. Analysis based on skill and experience alignment.">>

\* what generateText can do: throw, or return the completion's text
GenerateTextOutcomes ==
  { [threw |-> TRUE, text |-> <<>>],
    [threw |-> FALSE, text |-> <<>>],
    [threw |-> FALSE, text |-> <<" ", " ">>],
    [threw |-> FALSE, text |-> <<" ", "o", "k", " ">>] }

\* generateText was not called
NotGenerated == [threw |-> FALSE, text |-> <<"not called">>]

\* a bug the claims must notice: the error of generateText is not caught
generateMatchExplanation_rethrows(apiKey, generated, matchScore) ==
  IF ~apiKey THEN [threw |-> FALSE, text |-> TemplateUnconfigured(matchScore)]
  ELSE IF generated.threw THEN [threw |-> TRUE, text |-> <<>>]
  ELSE [threw |-> FALSE,
        text |-> IF trim(generated.text) # <<>> THEN trim(generated.text)
                 ELSE TemplateEmpty(matchScore)]

\* groqService.generateMatchExplanation, given what generateText does
generateMatchExplanation(apiKey, generated, matchScore) ==
  IF ~apiKey THEN [threw |-> FALSE, text |-> TemplateUnconfigured(matchScore)]
  ELSE IF generated.threw
  THEN [threw |-> FALSE, text |-> TemplateFailed(matchScore)]
  ELSE [threw |-> FALSE,
        text |-> IF trim(generated.text) # <<>> THEN trim(generated.text)
                 ELSE TemplateEmpty(matchScore)]

(***************************************************************************)
(* services/matching.service.ts                                            *)
(***************************************************************************)
\* calls of the matching service in one behaviour
MaxCalls == 2

MatchResumes == {"r1"}
MatchJobs    == {"j1"}

\* analysis rows that resume processing and job analysis can have written
ResumeAnalysisSamples ==
  { [skills |-> <<JS, Go>>, totalYearsExp |-> Some(3), highestDegree |-> Some("BSc"),
     skillsEmbedding |-> <<1, 0>>],
    [skills |-> <<Jj>>, totalYearsExp |-> None, highestDegree |-> None,
     skillsEmbedding |-> <<1, 1>>] }

JobAnalysisSamples ==
  { [requiredSkills |-> <<Js, TS>>, preferredSkills |-> <<Go>>,
     minExperience |-> Some(5), maxExperience |-> None,
     skillsEmbedding |-> <<0, 1>>],
    [requiredSkills |-> <<>>, preferredSkills |-> <<>>,
     minExperience |-> None, maxExperience |-> Some(2),
     skillsEmbedding |-> <<1, 0>>],
    [requiredSkills |-> <<Go>>, preferredSkills |-> <<>>,
     minExperience |-> None, maxExperience |-> None,
     skillsEmbedding |-> <<1>>] }

MatchScoreKey(resumeId, jobId) == <<"match:", resumeId, ":", jobId>>

ResumeNotFound == "Resume or analysis not found"
JobNotFound    == "Job or analysis not found"
MatchUniqueViolation ==
  "Unique constraint failed on the fields: (resume_id, job_id)"

\* the experience score without the floor under the shortfall penalty
experienceScoreOf_nofloor(totalYearsExp, minExperience, maxExperience) ==
  LET candidateYears == OrElse(totalYearsExp, 0)
      minExp == OrElse(minExperience, 0)
      maxExp == OrElse(maxExperience, 20)
  IN  IF candidateYears < minExp
      THEN 100 - (minExp - candidateYears) * 15
      ELSE IF candidateYears > maxExp
      THEN Max(50, 100 - (candidateYears - maxExp) * 5)
      ELSE 100

\* the experience score of calculateMatch
experienceScoreOf(totalYearsExp, minExperience, maxExperience) ==
  LET candidateYears == OrElse(totalYearsExp, 0)
      minExp == OrElse(minExperience, 0)
      maxExp == OrElse(maxExperience, 20)
  IN  IF candidateYears < minExp
      THEN Max(0, 100 - (minExp - candidateYears) * 15)
      ELSE IF candidateYears > maxExp
      THEN Max(50, 100 - (candidateYears - maxExp) * 5)
      ELSE 100

\* the skill score with nothing for a job that requires no skill
skillMatchScoreOf_zero(matchedRequired, requiredSkills) ==
  IF Len(requiredSkills) > 0
  THEN DoubleMul(DoubleDivInt(Len(matchedRequired), Len(requiredSkills)),
                 DoubleOfInt(100))
  ELSE Zero

\* the skill match score of calculateMatch
skillMatchScoreOf(matchedRequired, requiredSkills) ==
  IF Len(requiredSkills) > 0
  THEN DoubleMul(DoubleDivInt(Len(matchedRequired), Len(requiredSkills)),
                 DoubleOfInt(100))
  ELSE DoubleOfInt(50)

\* calculateMatch, from the two analysis rows to the scores
computeMatch(resumeAnalysis, jobAnalysis) ==
  LET skillSimilarity == cosineSimilarity(resumeAnalysis.skillsEmbedding,
                                          jobAnalysis.skillsEmbedding)
      resumeSkills == [i \in DOMAIN resumeAnalysis.skills |->
                         toLowerCase(resumeAnalysis.skills[i])]
      requiredSkills == [i \in DOMAIN jobAnalysis.requiredSkills |->
                           toLowerCase(jobAnalysis.requiredSkills[i])]
      preferredSkills == [i \in DOMAIN jobAnalysis.preferredSkills |->
                            toLowerCase(jobAnalysis.preferredSkills[i])]
      found(sk) == someIncludes(resumeSkills, sk)
      missing(sk) == ~someIncludes(resumeSkills, sk)
      matchedRequired == SelectSeq(requiredSkills, found)
      matchedPreferred == SelectSeq(preferredSkills, found)
      missingSkills == SelectSeq(requiredSkills, missing)
      skillMatchScore == skillMatchScoreOf(matchedRequired, requiredSkills)
      experienceScore == experienceScoreOf(resumeAnalysis.totalYearsExp,
                                           jobAnalysis.minExperience,
                                           jobAnalysis.maxExperience)
      educationScore == IF Truthy(resumeAnalysis.highestDegree) THEN 80 ELSE 60
      keywordScore == keywordScoreOf(skillSimilarity)
  IN  IF skillSimilarity.threw
      THEN [threw |-> TRUE, error |-> skillSimilarity.error]
      ELSE [threw |-> FALSE,
            data |-> [overallScore |-> calculateMatchScore(skillMatchScore,
                                         DoubleOfInt(experienceScore),
                                         DoubleOfInt(educationScore),
                                         DoubleOfInt(keywordScore)),
                      skillMatchScore |-> skillMatchScore,
                      experienceScore |-> experienceScore,
                      educationScore |-> educationScore,
                      keywordScore |-> keywordScore,
                      matchedSkills |-> matchedRequired \o matchedPreferred,
                      missingSkills |-> missingSkills]]

\* computeMatch on the analysis rows of the model, each pair computed once
computeMatchOf ==
  [ra \in ResumeAnalysisSamples, ja \in JobAnalysisSamples |->
     computeMatch(ra, ja)]

\* the rows of match_scores for one pair
RowsOf(table, resumeId, jobId) ==
  {m \in table : m.resumeId = resumeId /\ m.jobId = jobId}

\* a row of match_scores with the given scores and explanation
MatchRow(id, resumeId, jobId, data, explanation, status, shortlistedAt) ==
  [id |-> id, resumeId |-> resumeId, jobId |-> jobId,
   overallScore |-> data.overallScore,
   skillMatchScore |-> data.skillMatchScore,
   experienceScore |-> data.experienceScore,
   educationScore |-> data.educationScore,
   keywordScore |-> data.keywordScore,
   matchedSkills |-> data.matchedSkills,
   missingSkills |-> data.missingSkills,
   matchExplanation |-> explanation,
   status |-> status, shortlistedAt |-> shortlistedAt]

\* prisma.matchScore.create
matchScoreCreate(table, resumeId, jobId, data, explanation) ==
  LET row == MatchRow(Cardinality(table) + 1, resumeId, jobId, data,
                      explanation, "CALCULATED", Null)
  IN  [table |-> table \cup {row}, row |-> row]

\* a bug the claims must notice: a new row is written on every computation
matchScoreUpsert_creates(table, resumeId, jobId, data, explanation) ==
  matchScoreCreate(table, resumeId, jobId, data, explanation)

\* prisma.matchScore.upsert on the unique key (resumeId, jobId)
matchScoreUpsert(table, resumeId, jobId, data, explanation) ==
  IF RowsOf(table, resumeId, jobId) = {}
  THEN matchScoreCreate(table, resumeId, jobId, data, explanation)
  ELSE LET old == CHOOSE m \in RowsOf(table, resumeId, jobId) : TRUE
           row == MatchRow(old.id, resumeId, jobId, data, explanation,
                           "CALCULATED", old.shortlistedAt)
       IN  [table |-> (table \ {old}) \cup {row}, row |-> row]

\* a call of the service: its position and its local variables
NewCall(kind, resumeId, jobId) ==
  [kind |-> kind, resumeId |-> resumeId, jobId |-> jobId, pc |-> "begin",
   data |-> Null, generated |-> Null, explanation |-> Null,
   ret |-> Null, error |-> Undefined]

CallAt(c, where) == c \in DOMAIN calls /\ calls[c].pc = where

\* the call ends: its local variables are gone, the caller has the outcome
Ended(call, where, ret, error) ==
  [call EXCEPT !.pc = where, !.data = Null, !.generated = Null,
               !.explanation = Null, !.ret = ret, !.error = error]

CallReturns(cs, c, ret) == [cs EXCEPT ![c] = Ended(cs[c], "returned", ret, Undefined)]
CallThrows(cs, c, message) == [cs EXCEPT ![c] = Ended(cs[c], "thrown", Null, message)]

\* nothing but calculateMatch's cache.del touches the key match:<r>:<j>, so the
\* cache is taken enabled and empty
InitMatch ==
  /\ redisEnabled = TRUE
  /\ redis = EmptyStore
  /\ lastOp = NoOp
  /\ resumes = [r \in MatchResumes |->
                  [status |-> "ANALYZED", processingError |-> Undefined,
                   rawText |-> "text"]]
  /\ resumeAnalyses \in [MatchResumes -> ResumeAnalysisSamples]
  /\ queueJobs = [j \in {} |-> Null]
  /\ pc = [j \in {} |-> Null]
  /\ caught = [j \in {} |-> Null]
  /\ faults = 0
  /\ jobAnalyses = [j \in {} |-> Null]
  /\ matchScores = {}
  /\ groqApiKey \in BOOLEAN
  /\ calls = <<>>
  /\ InitOcr

\* jobService.analyzeJob: the analysis row of the job is written or replaced
AnalyzeJob(j, analysis) ==
  /\ jobAnalyses' = Put(jobAnalyses, j, analysis)
  /\ UNCHANGED <<ocrVars, trackerVars, dbVars, runVars, matchScores, groqApiKey, calls>>

\* calculateMatch: the two findUnique, the NotFoundError checks and the scores
readAndCompute(cs, c) ==
  LET r == cs[c].resumeId
      j == cs[c].jobId
  IN  IF r \notin DOMAIN resumeAnalyses THEN CallThrows(cs, c, ResumeNotFound)
      ELSE IF j \notin DOMAIN jobAnalyses THEN CallThrows(cs, c, JobNotFound)
      ELSE LET res == computeMatchOf[resumeAnalyses[r], jobAnalyses[j]]
           IN  IF res.threw THEN CallThrows(cs, c, res.error)
               ELSE [cs EXCEPT ![c].pc = "explain", ![c].data = res.data]

\* POST /:resumeId/:jobId: matchingService.calculateMatch, up to the scores
BeginCalculateMatch(r, j) ==
  /\ Len(calls) < MaxCalls
  /\ calls' = readAndCompute(Append(calls, NewCall("calculate", r, j)),
                             Len(calls) + 1)
  /\ UNCHANGED <<ocrVars, trackerVars, dbVars, runVars, jobAnalyses, matchScores, groqApiKey>>

\* a bug the claims must notice: the query computes whatever it finds
queryLookup_computes(cs, c) == [cs EXCEPT ![c].pc = "read"]

\* the query: prisma.matchScore.findUnique, and if (!match) calculateMatch
queryLookup(cs, c) ==
  LET found == RowsOf(matchScores, cs[c].resumeId, cs[c].jobId)
  IN  IF found = {} THEN [cs EXCEPT ![c].pc = "read"]
      ELSE CallReturns(cs, c, CHOOSE m \in found : TRUE)

\* getMatchingJobs, getMatchingCandidates, calculateMatchesForResume: the
\* score of one analyzed resume and one analyzed job is asked for
BeginQuery(r, j) ==
  /\ Len(calls) < MaxCalls
  /\ r \in DOMAIN resumeAnalyses
  /\ j \in DOMAIN jobAnalyses
  /\ calls' = queryLookup(Append(calls, NewCall("query", r, j)), Len(calls) + 1)
  /\ UNCHANGED <<ocrVars, trackerVars, dbVars, runVars, jobAnalyses, matchScores, groqApiKey>>

\* the query found nothing: calculateMatch, up to the scores
QueryComputes(c) ==
  /\ CallAt(c, "read")
  /\ calls' = readAndCompute(calls, c)
  /\ UNCHANGED <<ocrVars, trackerVars, dbVars, runVars, jobAnalyses, matchScores, groqApiKey>>

\* calculateMatch: await groqService.generateMatchExplanation(...); without
\* an api key generateText is not called
Explain(c, generated) ==
  /\ CallAt(c, "explain")
  /\ groqApiKey \/ generated = NotGenerated
  /\ ~groqApiKey \/ generated \in GenerateTextOutcomes
  /\ LET res == generateMatchExplanation(groqApiKey, generated,
                                         calls[c].data.overallScore)
     IN  calls' = IF res.threw THEN CallThrows(calls, c, "Groq API error")
                  ELSE [calls EXCEPT ![c].pc = "upsert",
                                     ![c].generated = generated,
                                     ![c].explanation = res.text]
  /\ UNCHANGED <<ocrVars, trackerVars, dbVars, runVars, jobAnalyses, matchScores, groqApiKey>>

\* calculateMatch: prisma.matchScore.upsert as one statement of the database,
\* then cache.del(cacheKeys.matchScore(...)) and the return of the row
Upsert(c) ==
  /\ CallAt(c, "upsert")
  /\ LET res == matchScoreUpsert(matchScores, calls[c].resumeId, calls[c].jobId,
                                 calls[c].data, calls[c].explanation)
     IN  /\ matchScores' = res.table
         /\ calls' = CallReturns(calls, c, res.row)
  /\ redis' = cacheDel(redis, MatchScoreKey(calls[c].resumeId, calls[c].jobId))
  /\ UNCHANGED <<ocrVars, redisEnabled, lastOp, dbVars, runVars, jobAnalyses, groqApiKey>>

\* prisma.matchScore.upsert when the client does it as a read and a write:
\* the read finds no row
UpsertFindsNone(c) ==
  /\ CallAt(c, "upsert")
  /\ RowsOf(matchScores, calls[c].resumeId, calls[c].jobId) = {}
  /\ calls' = [calls EXCEPT ![c].pc = "upsertCreate"]
  /\ UNCHANGED <<ocrVars, trackerVars, dbVars, runVars, jobAnalyses, matchScores, groqApiKey>>

\* ... and the write is a create, which the unique index
\* match_scores_resume_id_job_id_key rejects if a row has appeared; if not,
\* cache.del and the return of the row follow
UpsertCreate(c) ==
  /\ CallAt(c, "upsertCreate")
  /\ IF RowsOf(matchScores, calls[c].resumeId, calls[c].jobId) # {}
     THEN /\ calls' = CallThrows(calls, c, MatchUniqueViolation)
          /\ UNCHANGED <<matchScores, redis>>
     ELSE LET res == matchScoreCreate(matchScores, calls[c].resumeId,
                                      calls[c].jobId, calls[c].data,
                                      calls[c].explanation)
          IN  /\ matchScores' = res.table
              /\ calls' = CallReturns(calls, c, res.row)
              /\ redis' = cacheDel(redis, MatchScoreKey(calls[c].resumeId,
                                                        calls[c].jobId))
  /\ UNCHANGED <<ocrVars, redisEnabled, lastOp, dbVars, runVars, jobAnalyses, groqApiKey>>

NextMatch ==
  \/ \E j \in MatchJobs, a \in JobAnalysisSamples : AnalyzeJob(j, a)
  \/ \E r \in MatchResumes, j \in MatchJobs : BeginCalculateMatch(r, j)
  \/ \E r \in MatchResumes, j \in MatchJobs : BeginQuery(r, j)
  \/ \E c \in 1..MaxCalls : QueryComputes(c)
  \/ \E c \in 1..MaxCalls, g \in GenerateTextOutcomes \cup {NotGenerated} :
       Explain(c, g)
  \/ \E c \in 1..MaxCalls : Upsert(c)
  \/ \E c \in 1..MaxCalls : UpsertFindsNone(c)
  \/ \E c \in 1..MaxCalls : UpsertCreate(c)

SpecMatch == InitMatch /\ [][NextMatch]_vars

(***************************************************************************)
(* Claims about the matching service                                       *)
(***************************************************************************)
\* what a row of match_scores holds of a computation
Result(row) ==
  [overallScore |-> row.overallScore,
   skillMatchScore |-> row.skillMatchScore,
   experienceScore |-> row.experienceScore,
   educationScore |-> row.educationScore,
   keywordScore |-> row.keywordScore,
   matchedSkills |-> row.matchedSkills,
   missingSkills |-> row.missingSkills,
   matchExplanation |-> row.matchExplanation]

\* what a call about to store has computed
Computed(call) ==
  [overallScore |-> call.data.overallScore,
   skillMatchScore |-> call.data.skillMatchScore,
   experienceScore |-> call.data.experienceScore,
   educationScore |-> call.data.educationScore,
   keywordScore |-> call.data.keywordScore,
   matchedSkills |-> call.data.matchedSkills,
   missingSkills |-> call.data.missingSkills,
   matchExplanation |-> call.explanation]

\* the calls on the pair whose computation is stored by this step
Storing(r, j) ==
  {c \in DOMAIN calls :
     /\ calls[c].resumeId = r /\ calls[c].jobId = j
     /\ calls[c].pc \in {"upsert", "upsertCreate"}
     /\ calls'[c].pc = "returned"}

\* C8: whatever computations of a (resume, job) pair run, one after the other
\* or overlapping, the pair never has two rows; each computation that stores
\* leaves exactly one row, holding its result; and nothing else changes the
\* rows of the pair, so the row holds the result of the latest computation.
C8_OneRecordHoldsLatest ==
  [][\A r \in MatchResumes, j \in MatchJobs :
       /\ Cardinality(RowsOf(matchScores', r, j)) <= 1
       /\ \A c \in Storing(r, j) :
            /\ RowsOf(matchScores', r, j) = {calls'[c].ret}
            /\ Result(calls'[c].ret) = Computed(calls[c])
       /\ Storing(r, j) = {}
            => RowsOf(matchScores', r, j) = RowsOf(matchScores, r, j)]_vars

\* C8's case: two computations of the pair overlapped and came to different
\* scores; the one that stored last replaced the row of the other in place
C8_Witness ==
  /\ Len(calls) >= 2
  /\ calls[1].kind = "calculate" /\ calls[1].pc = "returned"
  /\ calls[2].kind = "calculate" /\ calls[2].pc = "returned"
  /\ calls[1].ret.overallScore # calls[2].ret.overallScore
  /\ calls[1].ret.id = calls[2].ret.id
  /\ matchScores = {calls[1].ret}

\* C9: a query that finds a stored row for its pair returns that row and
\* leaves the table as it is; it goes on to compute only when it finds none;
\* and once it has returned it does nothing more.
C9_QueryComputesOnlyWhenAbsent ==
  [][\A c \in DOMAIN calls' :
       calls'[c].kind = "query" =>
         /\ c \notin DOMAIN calls =>
              LET found == RowsOf(matchScores, calls'[c].resumeId,
                                  calls'[c].jobId)
              IN  /\ matchScores' = matchScores
                  /\ IF found # {}
                     THEN calls'[c].pc = "returned" /\ calls'[c].ret \in found
                     ELSE calls'[c].pc = "read"
         /\ (c \in DOMAIN calls /\ calls[c].pc = "returned")
              => calls'[c] = calls[c]]_vars

\* C9's case: the query returned the row an earlier computation stored,
\* although the job's analysis has changed and a computation would now give
\* another score
C9_Witness ==
  /\ Len(calls) >= 2
  /\ calls[1].kind = "calculate" /\ calls[1].pc = "returned"
  /\ calls[2].kind = "query" /\ calls[2].pc = "returned"
  /\ calls[2].ret = calls[1].ret
  /\ matchScores = {calls[1].ret}
  /\ LET now == computeMatch(resumeAnalyses["r1"], jobAnalyses["j1"])
     IN  ~now.threw /\ now.data.overallScore # calls[2].ret.overallScore

\* the text is one of the fallback texts and contains the score
IsTemplate(text, score) ==
  /\ text \in {TemplateUnconfigured(score), TemplateEmpty(score),
               TemplateFailed(score)}
  /\ \E i \in DOMAIN text : text[i] = ToString(score)

\* C10: the explanation step of calculateMatch never throws; when the
\* generator is not configured, throws or returns empty text the explanation
\* is a fallback text containing the overall score; the row is stored with that
\* explanation and score; and no call ends with an error of the generator.
C10_ExplanationNeverFails ==
  [][\A c \in DOMAIN calls :
       /\ (calls[c].pc = "explain" /\ calls'[c] # calls[c])
            => /\ calls'[c].pc = "upsert"
               /\ (\/ ~groqApiKey
                   \/ calls'[c].generated.threw
                   \/ trim(calls'[c].generated.text) = <<>>)
                    => IsTemplate(calls'[c].explanation,
                                  calls[c].data.overallScore)
       /\ (calls[c].pc \in {"upsert", "upsertCreate"} /\ calls'[c].pc = "returned")
            => /\ calls'[c].ret \in matchScores'
               /\ calls'[c].ret.matchExplanation = calls[c].explanation
               /\ calls'[c].ret.overallScore = calls[c].data.overallScore
       /\ (calls[c].pc # "thrown" /\ calls'[c].pc = "thrown")
            => calls'[c].error \in {ResumeNotFound, JobNotFound,
                                    VectorLengthError, MatchUniqueViolation}]_vars

\* C10's case: the generator was configured and threw, and the match is
\* stored with the fallback text that carries its overall score
C10_Witness ==
  /\ groqApiKey
  /\ Len(calls) >= 1
  /\ calls[1].pc = "returned"
  /\ calls[1].ret \in matchScores
  /\ calls[1].ret.matchExplanation = TemplateFailed(calls[1].ret.overallScore)

(***************************************************************************)
(* The pure functions of the scoring, applied to bounded inputs             *)
(***************************************************************************)
\* component scores handed to calculateMatchScore
ScoreInputs == {0, 1, 60, 62, 70, 80, 90, 100}

\* one call in a behaviour, recorded as the last operation with what it
\* returned, filed under the name of the operation
Applied(name, args, ret) ==
  /\ lastOp.op = NoOp.op
  /\ lastOp' = [op |-> name, jobId |-> 0, args |-> args, ret |-> (name :> ret)]
  /\ UNCHANGED <<ocrVars, matchVars, redisEnabled, redis, dbVars, runVars>>

\* what the call recorded in lastOp returned
Returned == lastOp.ret[lastOp.op]

CalculateMatchScore(skillMatch, experienceMatch, educationMatch, keywordMatch) ==
  Applied("calculateMatchScore",
          <<skillMatch, experienceMatch, educationMatch, keywordMatch>>,
          calculateMatchScore(DoubleOfInt(skillMatch),
                              DoubleOfInt(experienceMatch),
                              DoubleOfInt(educationMatch),
                              DoubleOfInt(keywordMatch)))

\* years of experience of a candidate, and the bounds a job asks for
MaxYears == 32
MaxBound == 10
YearsInputs == {None} \cup {Some(y) : y \in 0..MaxYears}
BoundInputs == {None} \cup {Some(b) : b \in (0 - 1)..MaxBound}

ExperienceScore(totalYearsExp, minExperience, maxExperience) ==
  Applied("experienceScore",
          <<totalYearsExp, minExperience, maxExperience>>,
          experienceScoreOf(totalYearsExp, minExperience, maxExperience))

\* embeddings of one length, entries -1, 0 and 1
EmbeddingInputs ==
  {<<a, b>> : a \in {0 - 1, 0, 1}, b \in {0 - 1, 0, 1}}

KeywordScore(vecA, vecB) ==
  Applied("keywordScore", <<vecA, vecB>>,
          keywordScoreOf(cosineSimilarity(vecA, vecB)))

\* analysis rows handed to calculateMatch
ResumeAnalysisInputs ==
  { [skills |-> sk, totalYearsExp |-> y, highestDegree |-> dg,
     skillsEmbedding |-> em] :
      sk \in {<<>>, <<JS>>, <<JS, Go>>, <<Jj>>},
      y \in {None, Some(3), Some(30)},
      dg \in {None, Some("BSc")},
      em \in {<<1, 0>>, <<1, 1>>} }

JobAnalysisInputs ==
  { [requiredSkills |-> rq, preferredSkills |-> pf,
     minExperience |-> mn, maxExperience |-> mx, skillsEmbedding |-> em] :
      rq \in {<<>>, <<Js>>, <<Js, TS>>, <<Js, TS, Go>>, <<TS, TS, Go>>},
      pf \in {<<>>, <<Go, Js>>},
      mn \in {None, Some(10)},
      mx \in {None, Some(2)},
      em \in {<<0, 1>>, <<0 - 1, 0>>, <<1>>} }

\* the longest list of required skills handed to the skill score
MaxSkills == 25

\* the skill score of a job with required skills of which matched are found
SkillMatchScore(matched, required) ==
  Applied("skillMatchScore", <<matched, required>>,
          skillMatchScoreOf([i \in 1..matched |-> Js], [i \in 1..required |-> Js]))

CalculateMatch(resumeAnalysis, jobAnalysis) ==
  Applied("calculateMatch", <<resumeAnalysis, jobAnalysis>>,
          computeMatch(resumeAnalysis, jobAnalysis))

NextScore ==
  \/ \E s \in ScoreInputs, e \in ScoreInputs, d \in ScoreInputs, k \in ScoreInputs :
       CalculateMatchScore(s, e, d, k)
  \/ \E y \in YearsInputs, mn \in BoundInputs, mx \in BoundInputs :
       ExperienceScore(y, mn, mx)
  \/ \E vecA \in EmbeddingInputs, vecB \in EmbeddingInputs :
       KeywordScore(vecA, vecB)
  \/ \E required \in 0..MaxSkills : \E matched \in 0..required :
       SkillMatchScore(matched, required)
  \/ \E ra \in ResumeAnalysisInputs, ja \in JobAnalysisInputs :
       CalculateMatch(ra, ja)

InitScore ==
  /\ redisEnabled = FALSE
  /\ redis = EmptyStore
  /\ lastOp = NoOp
  /\ InitTables

SpecScore == InitScore /\ [][NextScore]_vars

(***************************************************************************)
(* Claims about the scoring functions                                      *)
(***************************************************************************)
\* C11: calculateMatchScore returns the weighted sum 0.40 skill + 0.25
\* experience + 0.15 education + 0.20 keyword rounded to the nearest integer,
\* a half going up; so (80,70,60,90) gives 77, (0,0,0,0) gives 0 and
\* (100,100,100,100) gives 100.
C11_WeightedSumRoundedHalfUp ==
  lastOp.op = "calculateMatchScore" =>
    Returned = MathRound(40 * lastOp.args[1] + 25 * lastOp.args[2]
                             + 15 * lastOp.args[3] + 20 * lastOp.args[4], 100)

\* the call recorded in lastOp was a calculateMatch that returned its scores
Scored == lastOp.op = "calculateMatch" /\ ~Returned.threw

InRange(n) == n \in 0..100

\* C12: every score of a match record lies in [0,100]: the skill, experience,
\* education, keyword and overall scores that calculateMatch computes, for
\* any skill lists, years of experience, experience bounds and embeddings,
\* and each component function over its own wider inputs.
C12_ScoresWithinRange ==
  /\ Scored =>
       /\ DoubleLeq(Zero, Returned.data.skillMatchScore)
       /\ DoubleLeq(Returned.data.skillMatchScore, DoubleOfInt(100))
       /\ InRange(Returned.data.experienceScore)
       /\ InRange(Returned.data.educationScore)
       /\ InRange(Returned.data.keywordScore)
       /\ InRange(Returned.data.overallScore)
  /\ lastOp.op \in {"experienceScore", "keywordScore", "calculateMatchScore"} =>
       InRange(Returned)
  /\ lastOp.op = "skillMatchScore" =>
       /\ DoubleLeq(Zero, Returned)
       /\ DoubleLeq(Returned, DoubleOfInt(100))

\* a candidate ten years short of the minimum: the experience score is at
\* its floor
C12_Witness ==
  /\ Scored
  /\ lastOp.args[1].totalYearsExp = None
  /\ lastOp.args[2].minExperience = Some(10)
  /\ Returned.data.experienceScore = 0
  /\ InRange(Returned.data.overallScore)

\* the required skills of a job found among the skills of a resume: one is
\* found when it contains, or is contained in, a skill of the resume, the
\* case of letters aside
RequiredFound(resumeAnalysis, jobAnalysis) ==
  {i \in DOMAIN jobAnalysis.requiredSkills :
     \E k \in DOMAIN resumeAnalysis.skills :
       \/ includes(toLowerCase(resumeAnalysis.skills[k]),
                   toLowerCase(jobAnalysis.requiredSkills[i]))
       \/ includes(toLowerCase(jobAnalysis.requiredSkills[i]),
                   toLowerCase(resumeAnalysis.skills[k]))}

\* parts of a point within which a computed score is taken to equal a ratio
Tolerance == 10 ^ 3

\* the double score is found / required * 100, to within 1 / Tolerance
IsRatioScore(score, found, required) ==
  IF required = 0
  THEN DoubleLeq(score, DoubleOfInt(50)) /\ DoubleLeq(DoubleOfInt(50), score)
  ELSE /\ DoubleLeq(DoubleDivInt(Max(0, 100 * found * Tolerance - 1),
                                 required * Tolerance), score)
       /\ DoubleLeq(score, DoubleDivInt(100 * found * Tolerance + 1,
                                        required * Tolerance))

\* C13: the skill match score is the number of required skills found in the
\* resume's skills over the number of required skills, times 100, and 50
\* when the job requires no skill.
C13_SkillScoreIsFoundRatio ==
  /\ Scored =>
       IsRatioScore(Returned.data.skillMatchScore,
                    Cardinality(RequiredFound(lastOp.args[1], lastOp.args[2])),
                    Len(lastOp.args[2].requiredSkills))
  /\ lastOp.op = "skillMatchScore" =>
       IsRatioScore(Returned, lastOp.args[1], lastOp.args[2])

\* two of three required skills found, one of them under another case
C13_Witness ==
  /\ Scored
  /\ lastOp.args[1].skills = <<JS, Go>>
  /\ lastOp.args[2].requiredSkills = <<Js, TS, Go>>
  /\ Cardinality(RequiredFound(lastOp.args[1], lastOp.args[2])) = 2
  /\ DoubleLess(DoubleOfInt(66), Returned.data.skillMatchScore)
  /\ DoubleLess(Returned.data.skillMatchScore, DoubleOfInt(67))

\* a job that requires no skill scores 50
C13_WitnessNoneRequired ==
  /\ Scored
  /\ lastOp.args[2].requiredSkills = <<>>
  /\ Returned.data.skillMatchScore = DoubleOfInt(50)

\* the experience score the bounds min <= max of a job give a candidate
BandScore(years, min, max) ==
  IF years < min THEN Max(0, 100 - 15 * (min - years))
  ELSE IF years > max THEN Max(50, 100 - 5 * (years - max))
  ELSE 100

\* the experience score was computed from years and bounds that are all on
\* record, the bounds in order
Banded ==
  /\ lastOp.op = "experienceScore"
  /\ lastOp.args[1] # None /\ lastOp.args[2] # None /\ lastOp.args[3] # None
  /\ 0 <= lastOp.args[2][1] /\ lastOp.args[2][1] <= lastOp.args[3][1]

\* C14: the experience score is 100 for years within [min,max], max(0, 100 -
\* 15 * (min - years)) below min and max(50, 100 - 5 * (years - max)) above
\* max.
C14_ExperienceScoreByBand ==
  Banded => Returned = BandScore(lastOp.args[1][1], lastOp.args[2][1],
                                   lastOp.args[3][1])

Range(seq) == {seq[i] : i \in DOMAIN seq}

NoDuplicates(seq) == \A i \in DOMAIN seq, j \in DOMAIN seq : seq[i] = seq[j] => i = j

\* the skill, lower-cased, contains or is contained in a skill of the resume
FoundInResume(resumeAnalysis, skill) ==
  \E k \in DOMAIN resumeAnalysis.skills :
    \/ includes(toLowerCase(resumeAnalysis.skills[k]), toLowerCase(skill))
    \/ includes(toLowerCase(skill), toLowerCase(resumeAnalysis.skills[k]))

\* the skills of a list, lower-cased, that are found or not in the resume
FoundSkills(resumeAnalysis, skills) ==
  {toLowerCase(sk) : sk \in {x \in Range(skills) : FoundInResume(resumeAnalysis, x)}}

NotFoundSkills(resumeAnalysis, skills) ==
  {toLowerCase(sk) : sk \in {x \in Range(skills) : ~FoundInResume(resumeAnalysis, x)}}

\* missingSkills holds exactly the required skills not found, and every
\* required skill is in exactly one of matchedSkills and missingSkills
SkillsPartitioned ==
  Scored =>
    LET ra == lastOp.args[1]
        ja == lastOp.args[2]
        matched == Range(Returned.data.matchedSkills)
        missing == Range(Returned.data.missingSkills)
    IN  /\ missing = NotFoundSkills(ra, ja.requiredSkills)
        /\ matched = FoundSkills(ra, ja.requiredSkills)
                       \cup FoundSkills(ra, ja.preferredSkills)
        /\ \A sk \in Range(ja.requiredSkills) :
             (toLowerCase(sk) \in matched) # (toLowerCase(sk) \in missing)

\* C15: missingSkills is exactly the required skills not found in the
\* resume, matchedSkills is the union of the matched required and the matched
\* preferred skills as a set, holding no skill twice, and every required
\* skill is in exactly one of the two.
C15_MatchedAndMissingAreSets ==
  /\ SkillsPartitioned
  /\ Scored => NoDuplicates(Returned.data.matchedSkills)

(***************************************************************************)
(* pdfExtraction.service.ts: the cleaning of a text, its quality, and the  *)
(* extraction with its OCR fallback.  A text is a sequence of characters.  *)
(***************************************************************************)
MIN_TEXT_LENGTH == 50
MIN_WORD_COUNT  == 20
MAX_GIBBERISH_RATIO == DoubleDivInt(3, 10)
DefaultMaxPages == 20

\* the characters of the sample texts outside \x20-\x7E, \n, \r and \t
GibberishChars == {"é"}

Repeat(str, n) == [i \in 1..(n * Len(str)) |-> str[((i - 1) % Len(str)) + 1]]

\* the elements of seq at the indices that keep(seq, i) holds for
KeepAt(seq, keep(_, _)) ==
  LET tagged == [i \in DOMAIN seq |-> <<i, seq[i]>>]
      kept == SelectSeq(tagged, LAMBDA p : keep(seq, p[1]))
  IN  [i \in DOMAIN kept |-> kept[i][2]]

\* cleanExtractedText on texts of letters, blanks, braces and unrecognized
\* characters: braces go, a run of blanks becomes one space, and the ends
\* are trimmed (the texts hold no backslash, dollar, newline, control
\* character, quote or dash for the other replacements to act on)
cleanExtractedText(text) ==
  LET isBrace(c) == c \in {"{", "}"}
      isBlank(c) == c \in {" ", "\t"}
      noBrace(seq, i) == ~isBrace(seq[i])
      firstBlank(seq, i) == ~(isBlank(seq[i]) /\ i > 1 /\ isBlank(seq[i - 1]))
      unbraced == KeepAt(text, noBrace)
      runs == KeepAt(unbraced, firstBlank)
  IN  trim([i \in DOMAIN runs |-> IF isBlank(runs[i]) THEN " " ELSE runs[i]])

\* text.split(/\s+/).filter(w => w.length > 1).length: the runs of two or
\* more characters between white space
wordCountOf(text) ==
  Cardinality({i \in DOMAIN text :
                 /\ ~IsSpace(text[i])
                 /\ i = 1 \/ IsSpace(text[i - 1])
                 /\ i + 1 \in DOMAIN text
                 /\ ~IsSpace(text[i + 1])})

\* (text.match(GIBBERISH_PATTERN) || []).length
gibberishCountOf(text) == Cardinality({i \in DOMAIN text : text[i] \in GibberishChars})

\* the five patterns, each as the words one of which must occur
resumeIndicators ==
  << {<<"e", "x", "p", "e", "r", "i", "e", "n", "c", "e">>},
     {<<"e", "d", "u", "c", "a", "t", "i", "o", "n">>},
     {<<"s", "k", "i", "l", "l">>},
     {<<"w", "o", "r", "k">>, <<"e", "m", "p", "l", "o", "y", "m", "e", "n", "t">>},
     {<<"e", "m", "a", "i", "l">>, <<"p", "h", "o", "n", "e">>,
      <<"c", "o", "n", "t", "a", "c", "t">>} >>

indicatorMatchesOf(text) ==
  Cardinality({k \in DOMAIN resumeIndicators :
                 \E word \in resumeIndicators[k] : includes(toLowerCase(text), word)})

\* score -= penalty, the score being a sign and a magnitude
Minus(score, penalty) ==
  IF score.neg THEN [neg |-> TRUE, abs |-> DoubleAdd(score.abs, penalty)]
  ELSE IF DoubleLess(score.abs, penalty)
  THEN [neg |-> TRUE, abs |-> DoubleSub(penalty, score.abs)]
  ELSE [neg |-> FALSE, abs |-> DoubleSub(score.abs, penalty)]

\* a bug the claims must notice: the score is not clamped
clamp01_abs(score) == score.abs

\* Math.max(0, Math.min(1, score))
clamp01(score) ==
  IF score.neg THEN Zero
  ELSE IF DoubleLess(DoubleOfInt(1), score.abs) THEN DoubleOfInt(1)
  ELSE score.abs

\* assessExtractionQuality(text): four penalties taken off 1.0 one after the
\* other in doubles, and a warning for each
assessExtractionQuality(text) ==
  LET short == Len(text) < MIN_TEXT_LENGTH
      wordCount == wordCountOf(text)
      few == wordCount < MIN_WORD_COUNT
      garbled == DoubleLess(MAX_GIBBERISH_RATIO,
                            DoubleDivInt(gibberishCountOf(text), Max(Len(text), 1)))
      bare == indicatorMatchesOf(text) < 2
      s0 == [neg |-> FALSE, abs |-> DoubleOfInt(1)]
      s1 == IF short THEN Minus(s0, DoubleDivInt(4, 10)) ELSE s0
      s2 == IF few THEN Minus(s1, DoubleDivInt(3, 10)) ELSE s1
      s3 == IF garbled THEN Minus(s2, DoubleDivInt(3, 10)) ELSE s2
      s4 == IF bare THEN Minus(s3, DoubleDivInt(2, 10)) ELSE s3
  IN  [confidence |-> clamp01(s4),
       warnings |->
         (IF short THEN <<<<"Extracted text is very short">>>> ELSE <<>>)
         \o (IF few THEN <<<<"Low word count: ", ToString(wordCount)>>>> ELSE <<>>)
         \o (IF garbled THEN <<<<"High proportion of unrecognized characters">>>>
             ELSE <<>>)
         \o (IF bare THEN <<<<"Missing typical resume sections">>>> ELSE <<>>)]

\* sample texts: what pdf() or the OCR gives for a document
SampleText ==
  LET experience == <<"e", "x", "p", "e", "r", "i", "e", "n", "c", "e">>
      education == <<"e", "d", "u", "c", "a", "t", "i", "o", "n">>
      skills == <<"S", "k", "i", "l", "l", "s">>
      body == Repeat(<<"a", "b", " ">>, 20)
      full == experience \o <<" ">> \o education \o <<" ">> \o body
  IN  [blank |-> <<>>,
       body |-> body,
       full |-> full,
       fewWords |-> experience \o <<" ">> \o skills \o <<" ">> \o Repeat(<<"a">>, 50),
       oneWord |-> Repeat(<<"a">>, 60),
       garbled |-> Repeat(<<"é">>, 60),
       short |-> skills \o <<" ">> \o experience,
       shortGarbled |-> <<"é", "é">>,
       braced |-> <<" ", "{">> \o full \o <<"}", " ", "\t">>]

SampleTexts == {SampleText[k] : k \in DOMAIN SampleText}

\* the texts whose quality the extraction asks for, and the quality of each,
\* computed once
AssessedTexts == SampleTexts \cup {cleanExtractedText(t) : t \in SampleTexts}

qualityOf == [t \in AssessedTexts |-> assessExtractionQuality(t)]

\* a file on disk: whether it exists, and what pdf() makes of its bytes
\* (nothing when it throws)
Files ==
  {[exists |-> FALSE, parsed |-> None], [exists |-> TRUE, parsed |-> None],
   [exists |-> TRUE, parsed |-> Some([text |-> SampleText.blank, numpages |-> 0])]}
  \cup {[exists |-> TRUE, parsed |-> Some([text |-> t, numpages |-> 2])] :
          t \in SampleTexts}

\* the OCR of the host: whether tesseract.js and pdf2pic are installed, and
\* what converting and recognizing the pages gives (nothing when it throws)
OcrTexts == {SampleText.blank, SampleText.full, SampleText.fewWords, SampleText.oneWord, SampleText.garbled}

Ocrs ==
  {[installed |-> FALSE, recognized |-> None], [installed |-> TRUE, recognized |-> None]}
  \cup {[installed |-> TRUE, recognized |-> Some(t)] : t \in OcrTexts}

ExtractionOptions == [enableOCR : BOOLEAN, cleanText : BOOLEAN]

HybridSeparator ==
  <<"\n", "\n", "--- Additional OCR Content ---", "\n", "\n">>

\* extractTextDirect(filePath) inside its try block of extractText
extractTextDirect(file) ==
  IF file.parsed = None THEN [text |-> <<>>, pageCount |-> 0]
  ELSE [text |-> file.parsed[1].text,
        pageCount |-> IF file.parsed[1].numpages = 0 THEN 1
                      ELSE file.parsed[1].numpages]

\* extractTextOCR(filePath, options)
extractTextOCR(file, ocr) ==
  IF ~ocr.installed THEN [threw |-> TRUE, error |-> "OCR dependencies not installed"]
  ELSE IF file.parsed = None \/ ocr.recognized = None
  THEN [threw |-> TRUE, error |-> "OCR extraction failed"]
  ELSE LET pageCount == Min(file.parsed[1].numpages, DefaultMaxPages)
       IN  [threw |-> FALSE,
            text |-> IF pageCount = 0 THEN <<>> ELSE ocr.recognized[1],
            pageCount |-> pageCount]

\* the fallback that is tried whatever the quality of the direct text
attemptsOCR_always(confidence, opts) == opts.enableOCR

\* quality.confidence < 0.5 && opts.enableOCR
attemptsOCR(confidence, opts) ==
  DoubleLess(confidence, DoubleDivInt(5, 10)) /\ opts.enableOCR

\* pdfExtractionService.extractText(filePath, options); ocrAttempted is the
\* log line 'Low quality text extraction, attempting OCR'
extractText(file, ocr, opts) ==
  IF ~file.exists THEN [threw |-> TRUE, error |-> "File not found"]
  ELSE
    LET directResult == extractTextDirect(file)
        cleanedText == IF opts.cleanText THEN cleanExtractedText(directResult.text)
                       ELSE directResult.text
        quality == qualityOf[cleanedText]
        attempt == attemptsOCR(quality.confidence, opts)
        ocrResult == extractTextOCR(file, ocr)
        ocrCleaned == IF opts.cleanText THEN cleanExtractedText(ocrResult.text)
                      ELSE ocrResult.text
        ocrQuality == qualityOf[ocrCleaned]
    IN  IF attempt /\ ~ocrResult.threw
           /\ DoubleLess(quality.confidence, ocrQuality.confidence)
        THEN [threw |-> FALSE, text |-> ocrCleaned, method |-> "ocr",
              confidence |-> ocrQuality.confidence,
              pageCount |-> ocrResult.pageCount,
              warnings |-> quality.warnings \o <<<<"Used OCR for extraction">>>>,
              ocrAttempted |-> TRUE]
        ELSE IF attempt /\ ~ocrResult.threw
                /\ DoubleLess(quality.confidence, DoubleDivInt(7, 10))
                /\ DoubleLess(DoubleDivInt(3, 10), ocrQuality.confidence)
        THEN [threw |-> FALSE,
              text |-> cleanedText \o HybridSeparator \o ocrCleaned,
              method |-> "hybrid",
              confidence |-> IF DoubleLess(quality.confidence, ocrQuality.confidence)
                             THEN ocrQuality.confidence ELSE quality.confidence,
              pageCount |-> Max(directResult.pageCount, ocrResult.pageCount),
              warnings |-> quality.warnings
                             \o <<<<"Used hybrid text + OCR extraction">>>>,
              ocrAttempted |-> TRUE]
        ELSE [threw |-> FALSE, text |-> cleanedText, method |-> "text",
              confidence |-> quality.confidence,
              pageCount |-> directResult.pageCount,
              warnings |-> quality.warnings
                             \o (IF attempt /\ ocrResult.threw
                                 THEN <<<<"OCR fallback failed">>>> ELSE <<>>),
              ocrAttempted |-> attempt]

\* the number of characters of a text whose pieces may be longer than one
\* character
CharCount(text) ==
  Len(text) + 29 * Cardinality({i \in DOMAIN text :
                                 text[i] = "--- Additional OCR Content ---"})

\* resumeService.extractTextFromPdf(filePath): the try block, and the catch
\* block that throws its own error for whatever was thrown
extractTextFromPdf(file, ocr) ==
  LET result == extractText(file, ocr, [enableOCR |-> TRUE, cleanText |-> TRUE])
      tried ==
        IF result.threw THEN result
        ELSE IF result.text = <<>> \/ CharCount(trim(result.text)) < MIN_TEXT_LENGTH
        THEN [threw |-> TRUE, error |-> "Could not extract sufficient text from resume"]
        ELSE [threw |-> FALSE, text |-> result.text,
              confidence |-> result.confidence, method |-> result.method]
  IN  IF tried.threw THEN [threw |-> TRUE, error |-> "Failed to extract text from PDF"] ELSE tried

AssessQuality(text) ==
  Applied("assessQuality", <<text>>, assessExtractionQuality(text))

CleanText(text) ==
  Applied("cleanText", <<text>>, cleanExtractedText(text))

ExtractText(file, ocr, opts) ==
  Applied("extractText", <<file, ocr, opts>>, extractText(file, ocr, opts))

ExtractTextFromPdf(file, ocr) ==
  Applied("extractTextFromPdf", <<file, ocr>>, extractTextFromPdf(file, ocr))

\* texts at the thresholds of the assessment: indicator words, then words of
\* two letters, then characters outside printable ASCII
Composed(indicators, words, garbled) ==
  indicators \o Repeat(<<"a", "b", " ">>, words) \o Repeat(<<"é">>, garbled)

IndicatorParts ==
  { <<>>,
    <<"e", "m", "a", "i", "l", " ", "p", "h", "o", "n", "e", " ">>,
    <<"s", "k", "i", "l", "l", "s", " ", "w", "o", "r", "k", " ">>,
    <<"E", "d", "u", "c", "a", "t", "i", "o", "n", " ">> }

ThresholdTexts ==
  {Composed(i, w, g) : i \in IndicatorParts, w \in {0, 7, 16, 19, 20},
                       g \in {0, 1, 2, 9, 30}}
  \cup {Repeat(<<"a", " ">>, 30)}

NextExtract ==
  \/ \E text \in SampleTexts \cup ThresholdTexts : AssessQuality(text)
  \/ \E text \in SampleTexts : CleanText(text)
  \/ \E file \in Files, ocr \in Ocrs, opts \in ExtractionOptions :
       ExtractText(file, ocr, opts)
  \/ \E file \in Files, ocr \in Ocrs : ExtractTextFromPdf(file, ocr)

SpecExtract == InitScore /\ [][NextExtract]_vars

(***************************************************************************)
(* Claims about the extraction                                             *)
(***************************************************************************)
\* C16: the quality assessment of a text of length zero gives confidence 0
\* and at least one warning.
C16_EmptyTextHasNoConfidence ==
  (lastOp.op = "assessQuality" /\ lastOp.args[1] = SampleText.blank) =>
    /\ Returned.confidence = Zero
    /\ Len(Returned.warnings) >= 1

\* the last operation was an extractText of a file that exists
Extracted == lastOp.op = "extractText" /\ lastOp.args[1].exists

\* the confidence of the text the direct extraction gives for the file of
\* the last operation, and of the text its OCR gives
DirectConfidence ==
  LET text == extractTextDirect(lastOp.args[1]).text
  IN  assessExtractionQuality(IF lastOp.args[3].cleanText
                              THEN cleanExtractedText(text) ELSE text).confidence

OcrSucceeds == ~extractTextOCR(lastOp.args[1], lastOp.args[2]).threw

OcrConfidence ==
  LET text == extractTextOCR(lastOp.args[1], lastOp.args[2]).text
  IN  assessExtractionQuality(IF lastOp.args[3].cleanText
                              THEN cleanExtractedText(text) ELSE text).confidence

\* C17: OCR is attempted only when the confidence of the direct extraction
\* is below 0.5 and OCR is enabled; when it is attempted and gives a higher
\* confidence than the direct extraction, the result has method ocr and the
\* confidence of the OCR; with a direct confidence of 0.5 or more OCR is not
\* attempted, installed or not, and the method is text.
C17_OcrOnlyBelowHalf ==
  Extracted =>
    /\ Returned.ocrAttempted =>
         DoubleLess(DirectConfidence, DoubleDivInt(1, 2)) /\ lastOp.args[3].enableOCR
    /\ (Returned.ocrAttempted /\ OcrSucceeds
          /\ DoubleLess(DirectConfidence, OcrConfidence)) =>
         Returned.method = "ocr" /\ Returned.confidence = OcrConfidence
    /\ DoubleLeq(DoubleDivInt(1, 2), DirectConfidence) =>
         ~Returned.ocrAttempted /\ Returned.method = "text"
    /\ Returned.method # "text" => Returned.ocrAttempted

\* a garbled direct text of confidence 0.2 and an OCR text of confidence
\* 0.7: the result is that of the OCR
C17_Witness ==
  /\ Extracted
  /\ lastOp.args[1].parsed = Some([text |-> SampleText.garbled, numpages |-> 2])
  /\ lastOp.args[2].recognized = Some(SampleText.fewWords)
  /\ DoubleLess(DirectConfidence, DoubleDivInt(1, 4))
  /\ Returned.ocrAttempted
  /\ Returned.method = "ocr"
  /\ Returned.confidence = DoubleDivInt(7, 10)

\* a direct text of confidence 0.7, OCR enabled and installed with a better
\* text to give: no attempt
C17_WitnessNoAttempt ==
  /\ Extracted
  /\ lastOp.args[1].parsed = Some([text |-> SampleText.fewWords, numpages |-> 2])
  /\ lastOp.args[2].recognized = Some(SampleText.full)
  /\ lastOp.args[3].enableOCR
  /\ ~Returned.ocrAttempted
  /\ Returned.method = "text"

\* the two texts together: neither confidence is good and the OCR's is not
\* the higher
C17_WitnessHybrid ==
  /\ Extracted
  /\ Returned.method = "hybrid"

\* the file of the last operation exists and pdf() reads it
Opened == lastOp.args[1].exists /\ lastOp.args[1].parsed # None

\* extractText of a file that exists returns a result, whatever the direct
\* parse and the OCR do
ExtractTextSucceeds == Extracted => ~Returned.threw

\* C18: a low-quality extraction is a success: for a file that can be
\* opened, neither the extraction nor the step of the processing run that
\* calls it throws because the direct parse threw, the OCR threw, or the
\* text is short or of low confidence.
C18_LowQualityIsSuccess ==
  /\ ExtractTextSucceeds
  /\ (lastOp.op = "extractTextFromPdf" /\ Opened) => ~Returned.threw

(***************************************************************************)
(* embedding.service.ts: the provider chosen by the configuration, called  *)
(* under retryWithBackoff                                                  *)
(***************************************************************************)
Providers == {"voyage", "openai", "local"}

\* retryWithBackoff(fn, 3) of generateEmbedding
MaxRetries == 3

\* config.embedding: which api keys are set
EmbeddingConfigs == [voyageApiKey : BOOLEAN, openaiApiKey : BOOLEAN]

\* what a provider answers to a call: a vector, or nothing when the call
\* throws
ProviderAnswers == {None, Some(<<1, 0>>)}

\* the answers of the three providers to each call in turn
Worlds == [Providers -> [1..MaxRetries -> ProviderAnswers]]

EmbeddingErrors ==
  [voyage |-> "Voyage AI error",
   openai |-> "OpenAI embedding error",
   local |-> "Local embedding model not available. Install @xenova/transformers or configure Voyage/OpenAI API key"]

getActiveProvider(config) ==
  IF config.voyageApiKey THEN "voyage"
  ELSE IF config.openaiApiKey THEN "openai"
  ELSE "local"

\* the default of retryWithBackoff's baseDelay, in milliseconds
DefaultBaseDelay == 1000

\* retryWithBackoff's for loop from the given attempt on: fn[i] is what the
\* i-th invocation of fn gives, calls counts the invocations and slept lists
\* the delays passed to sleep
RECURSIVE retryLoop(_, _, _, _, _, _)
retryLoop(fn, maxRetries, baseDelay, attempt, lastError, slept) ==
  IF attempt < maxRetries
  THEN LET outcome == fn[attempt + 1]
       IN  IF ~outcome.threw
           THEN [threw |-> FALSE, value |-> outcome.value,
                 calls |-> attempt + 1, slept |-> slept]
           ELSE retryLoop(fn, maxRetries, baseDelay, attempt + 1, outcome.error,
                          IF attempt < maxRetries - 1
                          THEN Append(slept, baseDelay * (2 ^ attempt))
                          ELSE slept)
  ELSE [threw |-> TRUE, error |-> lastError, calls |-> attempt, slept |-> slept]

\* a bug the claims must notice: the first error is thrown, not the last
retryWithBackoff_firstError(fn, maxRetries, baseDelay) ==
  LET result == retryLoop(fn, maxRetries, baseDelay, 0, Undefined, <<>>)
  IN  IF result.threw /\ maxRetries >= 1
      THEN [result EXCEPT !.error = fn[1].error]
      ELSE result

\* retryWithBackoff(fn, maxRetries, baseDelay)
retryWithBackoff(fn, maxRetries, baseDelay) ==
  retryLoop(fn, maxRetries, baseDelay, 0, Undefined, <<>>)

Thrown(error) == [threw |-> TRUE, error |-> error]
Resolved(value) == [threw |-> FALSE, value |-> value]

\* embeddingService.generateEmbedding(text); called is the providers the
\* call has asked
generateEmbedding(config, world) ==
  LET provider == getActiveProvider(config)
      fn == [i \in 1..MaxRetries |->
               IF world[provider][i] = None
               THEN Thrown(EmbeddingErrors[provider])
               ELSE Resolved(world[provider][i][1])]
      outcome == retryWithBackoff(fn, MaxRetries, DefaultBaseDelay)
  IN  IF outcome.threw
      THEN [threw |-> TRUE, error |-> outcome.error,
            attempts |-> outcome.calls, called |-> {provider}]
      ELSE [threw |-> FALSE, embedding |-> outcome.value,
            attempts |-> outcome.calls, called |-> {provider}]

GenerateEmbedding(config, world) ==
  Applied("generateEmbedding", <<config, world>>, generateEmbedding(config, world))

NextEmbed ==
  \/ \E config \in EmbeddingConfigs, world \in Worlds :
       GenerateEmbedding(config, world)

SpecEmbed == InitScore /\ [][NextEmbed]_vars

(***************************************************************************)
(* Claims about the embedding                                              *)
(***************************************************************************)
\* a provider that the configuration allows and that answers a call
CanProduce(config, world, provider) ==
  /\ \/ provider = "local"
     \/ provider = "voyage" /\ config.voyageApiKey
     \/ provider = "openai" /\ config.openaiApiKey
  /\ \A i \in 1..MaxRetries : world[provider][i] # None

\* C19: generateEmbedding fails only if no provider can produce a vector:
\* after the selected provider has failed the next one and then the local
\* one are asked, and an error comes only after all have failed.
C19_FailsOnlyWhenAllProvidersFail ==
  (lastOp.op = "generateEmbedding" /\ Returned.threw) =>
    \A provider \in Providers :
      ~CanProduce(lastOp.args[1], lastOp.args[2], provider)

(***************************************************************************)
(* Claims about the keys of the progress store                             *)
(***************************************************************************)
\* the job on whose behalf the value under a key of the store was written:
\* the jobId of a progress record, the job an index entry points to
WrittenFor(key, value) ==
  IF key[1] = "resume:job:" THEN value ELSE value.jobId

\* C20: runs with different jobIds never write the same key of the store:
\* no step of one run in flight replaces, under a progress key or under a
\* resume -> job index key, a value written for another run in flight.
C20_RunsNeverShareAKey ==
  [][\A key \in (DOMAIN redis) \cap (DOMAIN redis') :
       (WrittenFor(key, redis[key]) \in ActiveJobs
          /\ WrittenFor(key, redis'[key]) \in ActiveJobs)
         => WrittenFor(key, redis[key]) = WrittenFor(key, redis'[key])]_vars

\* the same about the progress records alone, which are keyed by jobId
C20_ProgressKeysNeverShared ==
  [][\A key \in (DOMAIN redis) \cap (DOMAIN redis') :
       key[1] = "job:progress:" => redis[key].jobId = redis'[key].jobId]_vars

(***************************************************************************)
(* SpecLife: the processing runs of one resume to their end.  The owner    *)
(* may delete the resume while its queue job waits or runs; every step of  *)
(* the worker that can be taken is taken (each awaited call returns or      *)
(* throws).                                                                *)
(***************************************************************************)
ResumeNotFoundError == "Resume not found"
RecordToUpdateNotFound == "Record to update not found"

RowMissing(j) == ResumeOf(j) \notin DOMAIN resumes

Without(f, k) == [x \in (DOMAIN f) \ {k} |-> f[x]]

\* resumeService.deleteResume: the row is deleted, its analysis with it
\* (resume_analyses_resume_id_fkey, ON DELETE CASCADE), and the resume's
\* cache keys are removed
DeleteResume(r) ==
  /\ r \in DOMAIN resumes
  /\ resumes' = Without(resumes, r)
  /\ resumeAnalyses' = Without(resumeAnalyses, r)
  /\ redis' = cacheDel(cacheDel(redis, ResumeKey(r)), ResumeAnalysisKey(r))
  /\ UNCHANGED <<ocrVars, matchVars, redisEnabled, lastOp, runVars>>

\* processResume: prisma.resume.findUnique finds nothing, and NotFoundError
\* is thrown before initializeJob and before the try block
FindResumeThrows(j) ==
  /\ At(j, "findResume")
  /\ RowMissing(j)
  /\ caught' = [caught EXCEPT ![j] = ResumeNotFoundError]
  /\ Goto(j, "thrown")
  /\ UNCHANGED <<ocrVars, matchVars, trackerVars, dbVars, queueJobs, faults>>

\* processResume, try block: a write to the deleted resume throws
\* (prisma.resume.update: no record; prisma.resumeAnalysis.create: foreign key)
WriteThrowsNoRow(j) ==
  /\ j \in ActiveJobs
  /\ pc[j] \in {"setProcessing", "saveRawText", "createAnalysis", "setAnalyzed"}
  /\ RowMissing(j)
  /\ Throw(j, RecordToUpdateNotFound)
  /\ UNCHANGED <<ocrVars, matchVars, trackerVars, dbVars, queueJobs, faults>>

\* processResume, catch block: prisma.resume.update throws, so the error
\* leaves the catch block before markFailed is called
CatchSetFailedThrows(j) ==
  /\ At(j, "catchSetFailed")
  /\ RowMissing(j)
  /\ caught' = [caught EXCEPT ![j] = RecordToUpdateNotFound]
  /\ Goto(j, "thrown")
  /\ UNCHANGED <<ocrVars, matchVars, trackerVars, dbVars, queueJobs, faults>>

\* the worker's part in a queue job: processResume and the job's settling
WorkerStep(j) ==
  \/ ProcessResumeStep(j)
  \/ FindResumeThrows(j)
  \/ WriteThrowsNoRow(j)
  \/ CatchSetFailedThrows(j)
  \/ JobCompleted(j)
  \/ JobFailed(j)

\* an id is given to one resume only (uuid)
NeverQueued(r) == \A j \in DOMAIN queueJobs : queueJobs[j].resumeId # r

NextLife ==
  \/ NeverQueued("r1") /\ CreateResume("r1")
  \/ ReprocessResume("r1")
  \/ DeleteResume("r1")
  \/ \E j \in JobIds : WorkerStart(j)
  \/ \E j \in JobIds : ProcessResumeStep(j)
  \/ \E j \in JobIds : FindResumeThrows(j)
  \/ \E j \in JobIds : WriteThrowsNoRow(j)
  \/ \E j \in JobIds : CatchSetFailedThrows(j)
  \/ \E j \in JobIds : JobCompleted(j)
  \/ \E j \in JobIds : JobFailed(j)

\* the worker takes a waiting job when it has a free slot, and the event loop
\* runs the continuation of every settled await
FairLife ==
  \A j \in JobIds : WF_vars(WorkerStart(j)) /\ WF_vars(WorkerStep(j))

SpecLife == InitTracker /\ [][NextLife]_vars /\ FairLife

(***************************************************************************)
(* Claims about the end of a run                                           *)
(***************************************************************************)
StatusIsTerminal(j) ==
  ~RowMissing(j) => resumes[ResumeOf(j)].status \in {"ANALYZED", "FAILED"}

RecordIsTerminal(j) ==
  hasProgress(redis, j) => Stored(j).stage \in Terminal

Settled(j) ==
  /\ j \in DOMAIN queueJobs
  /\ j \notin ActiveJobs
  /\ StatusIsTerminal(j)
  /\ RecordIsTerminal(j)

\* C21: every run that starts ends, and then the resume's status is ANALYZED
\* or FAILED and the progress record of the job is COMPLETED or FAILED
C21_RunEndsTerminal ==
  \A j \in JobIds : [](j \in ActiveJobs => <>Settled(j))

\* a queue job that has ended has left a terminal progress record
EndedRunLeftTerminalRecord ==
  \A j \in DOMAIN queueJobs :
    (redisEnabled /\ queueJobs[j].state \in {"completed", "failed"})
      => RecordIsTerminal(j)

(***************************************************************************)
(* services/groq.service.ts: analyzeResume, and SpecRetry, which applies   *)
(* retryWithBackoff and the calls that go through it to bounded inputs     *)
(***************************************************************************)
\* the attempts analyzeResume allows: retryWithBackoff(..., 3)
AnalysisRetries == 3

GroqKeyMissing == "Groq API key not configured"
GroqEmpty      == "Empty response from Groq"
GroqRefused    == "429 Too Many Requests"

\* responses of the model: one that is a JSON object, one that is not
JsonResponse  == "{\"skills\": []}"
ProseResponse == "Here is the analysis"

\* parseAIResponse: JSON.parse of the response, any failure thrown as
\* AIProcessingError
parseAIResponse(response) ==
  IF response = JsonResponse
  THEN Resolved("ResumeAnalysisResult")
  ELSE Thrown(AnalysisFailed)

\* what one invocation of generateContent can give
GroqOutcomes ==
  {Thrown(GroqEmpty), Thrown(GroqRefused), Resolved(JsonResponse), Resolved(ProseResponse)}

\* groqService.analyzeResume(resumeText); answers[i] is what the i-th
\* invocation of generateContent gives
analyzeResume(apiKey, answers) ==
  IF ~apiKey
  THEN [threw |-> TRUE, error |-> GroqKeyMissing, calls |-> 0, slept |-> <<>>]
  ELSE LET result == retryWithBackoff(answers, AnalysisRetries, DefaultBaseDelay)
       IN  IF result.threw
           THEN result
           ELSE LET parsed == parseAIResponse(result.value)
                IN  IF parsed.threw
                    THEN [threw |-> TRUE, error |-> parsed.error,
                          calls |-> result.calls, slept |-> result.slept]
                    ELSE [result EXCEPT !.value = parsed.value]

\* the attempts a caller of retryWithBackoff may ask for
MaxAttempts == 4

RetryOutcomes == {Thrown("first"), Thrown("second"), Resolved("a"), Resolved("b")}

RetryWithBackoff(fn, maxRetries, baseDelay) ==
  Applied("retryWithBackoff", <<fn, maxRetries, baseDelay>>,
          retryWithBackoff(fn, maxRetries, baseDelay))

AnalyzeResume(apiKey, answers) ==
  Applied("analyzeResume", <<apiKey, answers>>, analyzeResume(apiKey, answers))

NextRetry ==
  \/ \E fn \in [1..MaxAttempts -> RetryOutcomes], n \in 0..MaxAttempts,
        d \in {1, DefaultBaseDelay} : RetryWithBackoff(fn, n, d)
  \/ \E apiKey \in BOOLEAN, answers \in [1..AnalysisRetries -> GroqOutcomes] :
       AnalyzeResume(apiKey, answers)
  \/ \E config \in EmbeddingConfigs, world \in Worlds : GenerateEmbedding(config, world)

SpecRetry == InitScore /\ [][NextRetry]_vars

(***************************************************************************)
(* Claims about the retries                                                *)
(***************************************************************************)
\* the attempts among the first n that succeed after failures only
FirstSuccess(fn, n) ==
  {i \in 1..n : ~fn[i].threw /\ \A k \in 1..(i - 1) : fn[k].threw}

\* the waits after the given number of failed attempts: d, 2d, 4d, ...
Backoff(d, failed) == [k \in 1..failed |-> d * (2 ^ (k - 1))]

\* fn is invoked up to its first success, n times at most; the waits follow
\* the failed attempts except the n-th
RetriesAsAgreed(fn, n, d, invoked, slept) ==
  /\ invoked <= n
  /\ \A i \in FirstSuccess(fn, n) : invoked = i /\ slept = Backoff(d, i - 1)
  /\ FirstSuccess(fn, n) = {} => invoked = n /\ slept = Backoff(d, Max(n, 1) - 1)

C22_WitnessAllFail ==
  /\ lastOp.op = "retryWithBackoff"
  /\ lastOp.args[2] = 3
  /\ lastOp.args[1][1] = Thrown("second")
  /\ lastOp.args[1][2] = Thrown("second")
  /\ lastOp.args[1][3] = Thrown("first")
  /\ Returned.threw /\ Returned.error = "first" /\ Returned.calls = 3
  /\ Len(Returned.slept) = 2

\* the analysis gives up after three refused requests
C22_WitnessAnalysis ==
  /\ lastOp.op = "analyzeResume"
  /\ lastOp.args[1]
  /\ \A i \in 1..3 : lastOp.args[2][i].threw
  /\ Returned.threw /\ Returned.calls = 3

(***************************************************************************)
(* pdfExtraction.service.ts, extractTextOCR step by step: the OCR attempts *)
(* of the extractions the worker runs side by side share the directory      *)
(* uploads/temp_ocr.  An attempt is one call of extractTextOCR; the code    *)
(* between two awaits is one step.                                         *)
(***************************************************************************)
\* the OCR attempts of one behaviour
MaxOcrRuns == 2
\* the pages of a document
MaxPages == 2

OcrRunIds == 1..MaxOcrRuns

OcrDepsMissing == "OCR dependencies not installed"
OcrFailed == "OCR extraction failed"

\* pdf2pic's name of a page image: <saveFilename>.<page>.png, where
\* saveFilename is `ocr_${Date.now()}`
PageImage(stamp, page) == <<"ocr_", stamp, ".", page, ".png">>

ImageOf(run) == PageImage(run.stamp, run.page)

\* a bug the claims must notice: the finally block removes nothing
finallyCleanup_keeps(dir) == dir

\* the finally block: every file of temp_ocr that starts with ocr_ is removed
finallyCleanup(dir) == [f \in {g \in DOMAIN dir : g[1] # "ocr_"} |-> dir[f]]

\* the catch block and the finally block; the texts read so far are dropped
ocrThrows(dir, run) ==
  [dir |-> finallyCleanup(dir),
   run |-> [run EXCEPT !.pc = "thrown", !.error = OcrFailed,
                       !.textParts = <<>>, !.skipped = {}]]

\* the for loop at the given page: convert(page) is called, or the loop is
\* over and the text is returned through the finally block
ocrLoop(dir, run, page) ==
  IF page <= run.pageCount
  THEN [dir |-> dir, run |-> [run EXCEPT !.page = page, !.pc = "converting"]]
  ELSE [dir |-> finallyCleanup(dir), run |-> [run EXCEPT !.pc = "returned"]]

OcrAt(e, where) == e \in DOMAIN ocrRuns /\ ocrRuns[e].pc = where

OcrStep(e, res) ==
  /\ tempDir' = res.dir
  /\ ocrRuns' = Put(ocrRuns, e, res.run)
  /\ UNCHANGED <<matchVars, trackerVars, dbVars, runVars>>

\* Date.now() when the given attempt starts: the millisecond in which the
\* attempt before it started, or a later one
DateNow(e) ==
  IF e = 1 THEN {0} ELSE {ocrRuns[e - 1].stamp, ocrRuns[e - 1].stamp + 1}

\* extractTextOCR is called: the dependencies are loaded, the directory is
\* made, saveFilename is taken from the clock, the file is read and pdf() is
\* called; or the dependencies are missing, or readFileSync throws
StartOCR(e, stamp) ==
  /\ e \notin DOMAIN ocrRuns
  /\ \A d \in OcrRunIds : d < e => d \in DOMAIN ocrRuns
  /\ stamp \in DateNow(e)
  /\ LET run == [pc |-> "parsing", stamp |-> stamp, page |-> 0, pageCount |-> 0,
                 textParts |-> <<>>, skipped |-> {}, error |-> Undefined]
     IN  \/ OcrStep(e, [dir |-> tempDir,
                        run |-> [run EXCEPT !.pc = "thrown", !.error = OcrDepsMissing]])
         \/ OcrStep(e, [dir |-> tempDir, run |-> run])
         \/ OcrStep(e, ocrThrows(tempDir, run))

\* pdf() resolves with the number of pages, and the loop begins
PdfParsed(e, numpages) ==
  /\ OcrAt(e, "parsing")
  /\ OcrStep(e, ocrLoop(tempDir,
                        [ocrRuns[e] EXCEPT !.pageCount = Min(numpages, DefaultMaxPages)],
                        1))

\* pdf() rejects
PdfParseThrows(e) ==
  /\ OcrAt(e, "parsing")
  /\ OcrStep(e, ocrThrows(tempDir, ocrRuns[e]))

\* pdf2pic writes the image of the page
ConvertWrites(e) ==
  /\ OcrAt(e, "converting")
  /\ OcrStep(e, [dir |-> Put(tempDir, ImageOf(ocrRuns[e]), e),
                 run |-> [ocrRuns[e] EXCEPT !.pc = "converted"]])

\* convert(page) resolves with the image's path: Tesseract.recognize is
\* called if the file exists, otherwise the page is passed over
ConvertResolves(e) ==
  /\ OcrAt(e, "converted")
  /\ LET run == ocrRuns[e]
     IN  IF ImageOf(run) \in DOMAIN tempDir
         THEN OcrStep(e, [dir |-> tempDir, run |-> [run EXCEPT !.pc = "recognizing"]])
         ELSE OcrStep(e, ocrLoop(tempDir, [run EXCEPT !.skipped = @ \cup {run.page}],
                                 run.page + 1))

\* convert(page) resolves without a path: no image was written
ConvertResolvesNoImage(e) ==
  /\ OcrAt(e, "converting")
  /\ LET run == ocrRuns[e]
     IN  OcrStep(e, ocrLoop(tempDir, [run EXCEPT !.skipped = @ \cup {run.page}],
                            run.page + 1))

\* convert(page) rejects
ConvertThrows(e) ==
  /\ OcrAt(e, "converting")
  /\ OcrStep(e, ocrThrows(tempDir, ocrRuns[e]))

\* Tesseract.recognize rejects: the image cannot be read, or the recognition
\* fails
RecognizeThrows(e) ==
  /\ OcrAt(e, "recognizing")
  /\ OcrStep(e, ocrThrows(tempDir, ocrRuns[e]))

\* Tesseract.recognize resolves, having read the image: the text is kept and
\* the image is unlinked, which throws if the file is gone by now
RecognizeResolves(e) ==
  /\ OcrAt(e, "recognizing")
  /\ LET run == ocrRuns[e]
     IN  IF ImageOf(run) \in DOMAIN tempDir
         THEN OcrStep(e, ocrLoop(Without(tempDir, ImageOf(run)),
                                 [run EXCEPT !.textParts = Append(@, run.page)],
                                 run.page + 1))
         ELSE OcrStep(e, ocrThrows(tempDir, run))

NextOcr ==
  \/ \E e \in OcrRunIds, stamp \in 0..MaxOcrRuns : StartOCR(e, stamp)
  \/ \E e \in OcrRunIds, numpages \in 0..MaxPages : PdfParsed(e, numpages)
  \/ \E e \in OcrRunIds : PdfParseThrows(e)
  \/ \E e \in OcrRunIds : ConvertWrites(e)
  \/ \E e \in OcrRunIds : ConvertResolves(e)
  \/ \E e \in OcrRunIds : ConvertResolvesNoImage(e)
  \/ \E e \in OcrRunIds : ConvertThrows(e)
  \/ \E e \in OcrRunIds : RecognizeThrows(e)
  \/ \E e \in OcrRunIds : RecognizeResolves(e)

SpecOcr == InitScore /\ [][NextOcr]_vars

(***************************************************************************)
(* Claims about the temporary files of the OCR                             *)
(***************************************************************************)
OcrEnded(e) == e \in DOMAIN ocrRuns /\ ocrRuns[e].pc \in {"returned", "thrown"}

WrittenBy(e) == {f \in DOMAIN tempDir : tempDir[f] = e}

\* C23: when an OCR attempt has returned or thrown, none of the page images
\* it wrote is left in the temp directory
C23_TempFilesRemoved ==
  \A e \in OcrRunIds : OcrEnded(e) => WrittenBy(e) = {}

\* an attempt threw at its second page
C23_Witness ==
  \E e \in OcrRunIds :
    /\ OcrAt(e, "thrown")
    /\ ocrRuns[e].error = OcrFailed
    /\ ocrRuns[e].page = 2
    /\ tempDir = [f \in {} |-> Null]

\* an attempt returned after a page without an image
C23_WitnessMissingImage ==
  \E e \in OcrRunIds :
    /\ OcrAt(e, "returned")
    /\ ocrRuns[e].skipped # {}
    /\ ocrRuns[e].textParts # <<>>

\* an attempt threw while the other attempt's image was in the directory
C23_WitnessThrowsWithImage ==
  \E e \in OcrRunIds :
    /\ OcrAt(e, "thrown")
    /\ ocrRuns[e].page >= 1
    /\ \E d \in OcrRunIds : d # e /\ OcrAt(d, "converted")

\* the attempt has rendered the image of its page and has not yet looked at it
Rendered(e) ==
  /\ OcrAt(e, "converted")
  /\ ImageOf(ocrRuns[e]) \in DOMAIN tempDir

\* C30: no step of another OCR attempt removes a page image that an attempt
\* has rendered and not yet read
C30_CleanupSparesOtherRuns ==
  [][\A e \in OcrRunIds :
       (Rendered(e) /\ ocrRuns'[e] = ocrRuns[e])
         => ImageOf(ocrRuns[e]) \in DOMAIN tempDir']_vars

\* an attempt alone reads every page it renders
AloneReadsEveryPage ==
  \A e \in OcrRunIds :
    (DOMAIN ocrRuns = {e} /\ OcrAt(e, "converted")) => Rendered(e)

(***************************************************************************)
(* Claims about the quality of an extraction                               *)
(***************************************************************************)
\* the penalties a text triggers, in tenths, counted from the text
PenaltiesOf(text) ==
  (IF Len(text) < 50 THEN <<4>> ELSE <<>>)
  \o (IF wordCountOf(text) < 20 THEN <<3>> ELSE <<>>)
  \o (IF 10 * gibberishCountOf(text) > 3 * Max(Len(text), 1) THEN <<3>> ELSE <<>>)
  \o (IF indicatorMatchesOf(text) < 2 THEN <<2>> ELSE <<>>)

RECURSIVE SumOf(_)
SumOf(seq) == IF seq = <<>> THEN 0 ELSE Head(seq) + SumOf(Tail(seq))

\* clamp(1.0 - penalties, 0, 1), in tenths
ClampedTenths(text) == Max(0, Min(10, 10 - SumOf(PenaltiesOf(text))))

\* the double is tenths / 10, to within 1 / Tolerance of a tenth
IsTenths(x, tenths) ==
  /\ DoubleLeq(DoubleDivInt(Max(0, tenths * Tolerance - 1), 10 * Tolerance), x)
  /\ DoubleLeq(x, DoubleDivInt(tenths * Tolerance + 1, 10 * Tolerance))

\* C24: the confidence is 1.0 less 0.4 for a text under 50 characters, 0.3
\* for under 20 words, 0.3 for a ratio of unrecognized characters above 0.3
\* and 0.2 for fewer than two resume indicators, clamped to [0,1]; there is
\* one warning for each penalty
C24_ConfidenceIsClampedPenalties ==
  lastOp.op = "assessQuality" =>
    /\ IsTenths(Returned.confidence, ClampedTenths(lastOp.args[1]))
    /\ Len(Returned.warnings) = Len(PenaltiesOf(lastOp.args[1]))
    /\ DoubleLeq(Zero, Returned.confidence)
    /\ DoubleLeq(Returned.confidence, DoubleOfInt(1))

\* all four penalties: the score of -0.2 is reported as 0
C24_Witness ==
  /\ lastOp.op = "assessQuality"
  /\ PenaltiesOf(lastOp.args[1]) = <<4, 3, 3, 2>>
  /\ Returned.confidence = Zero
  /\ Len(Returned.warnings) = 4

\* no penalty: the confidence is 1
C24_WitnessNoPenalty ==
  /\ lastOp.op = "assessQuality"
  /\ PenaltiesOf(lastOp.args[1]) = <<>>
  /\ Returned.confidence = DoubleOfInt(1)
  /\ Returned.warnings = <<>>

\* a ratio of exactly 0.3 triggers nothing
C24_WitnessAtThresholds ==
  /\ lastOp.op = "assessQuality"
  /\ gibberishCountOf(lastOp.args[1]) > 0
  /\ 10 * gibberishCountOf(lastOp.args[1]) = 3 * Len(lastOp.args[1])
  /\ PenaltiesOf(lastOp.args[1]) = <<2>>
  /\ Len(Returned.warnings) = 1

\* the sets of penalties that texts trigger in the model
PenaltySets == {PenaltiesOf(t) : t \in SampleTexts \cup ThresholdTexts}

(***************************************************************************)
(* services/skillGap.service.ts: getAggregatedRecommendations over the     *)
(* skill gap records of a user                                             *)
(***************************************************************************)
\* the gap records of one user
MaxGaps == 3
\* slice(0, 10)
TopCount == 10

SkillNames ==
  <<"aws", "bash", "css", "docker", "elixir", "flask", "go", "html", "java", "kafka",
    "linux", "mongo">>

Missing(skill, importance) == [skill |-> skill, importance |-> importance]
Course(courseName, provider) == [courseName |-> courseName, provider |-> provider]

\* skill gap rows as analyzeSkillGap stores them
SkillGapSamples ==
  { [missingSkills |-> [i \in 1..12 |-> Missing(SkillNames[i], "low")],
     courseRecommendations |-> <<Course("AWS basics", "p1"), Course("Go tour", "p1")>>,
     resumeImprovements |-> <<"Add a summary">>],
    [missingSkills |-> [i \in 1..6 |-> Missing(SkillNames[13 - i], "high")],
     courseRecommendations |-> <<Course("Go tour", "p2"), Course("Kafka 101", "p2")>>,
     resumeImprovements |-> <<"Add a summary", "List projects">>],
    [missingSkills |-> <<Missing("aws", "medium"), Missing("bash", "high"),
                         Missing("aws", "low")>>,
     courseRecommendations |-> <<>>,
     resumeImprovements |-> <<>>],
    [missingSkills |-> <<Missing("docker", "low"), Missing("docker", "low"),
                         Missing("elixir", "high")>>,
     courseRecommendations |-> <<Course("Docker deep dive", "p1")>>,
     resumeImprovements |-> <<"List projects">>],
    [missingSkills |-> <<Missing("css", "critical")>>,
     courseRecommendations |-> <<>>,
     resumeImprovements |-> <<"Quantify results">>],
    [missingSkills |-> <<>>,
     courseRecommendations |-> <<>>,
     resumeImprovements |-> <<>>] }

\* a bug the claims must notice: every importance counts 1
importanceWeight_one(importance) == 1

\* s.importance === 'high' ? 3 : s.importance === 'medium' ? 2 : 1
importanceWeight(importance) ==
  IF importance = "high" THEN 3 ELSE IF importance = "medium" THEN 2 ELSE 1

\* flatMap: the lists of the rows one after the other
RECURSIVE flatMap(_, _)
flatMap(rows, field) ==
  IF rows = <<>> THEN <<>> ELSE rows[1][field] \o flatMap(Tail(rows), field)

\* skillCounts.set(s.skill, count + weight): a Map keeps its keys in the
\* order in which they were first set
setCount(counts, s) ==
  IF \E i \in DOMAIN counts : counts[i].skill = s.skill
  THEN [i \in DOMAIN counts |->
          IF counts[i].skill = s.skill
          THEN [counts[i] EXCEPT !.count = @ + importanceWeight(s.importance)]
          ELSE counts[i]]
  ELSE Append(counts, [skill |-> s.skill, count |-> importanceWeight(s.importance)])

RECURSIVE skillCountsOf(_)
skillCountsOf(missing) ==
  IF missing = <<>> THEN <<>>
  ELSE setCount(skillCountsOf(SubSeq(missing, 1, Len(missing) - 1)),
                missing[Len(missing)])

\* sort((a, b) => b[1] - a[1]): by descending count, entries of equal count
\* in their order (Array.prototype.sort is stable)
RECURSIVE sortByCount(_)
sortByCount(entries) ==
  IF entries = <<>> THEN <<>>
  ELSE LET front == sortByCount(SubSeq(entries, 1, Len(entries) - 1))
           last == entries[Len(entries)]
           k == Cardinality({i \in DOMAIN front : front[i].count >= last.count})
       IN  SubSeq(front, 1, k) \o <<last>> \o SubSeq(front, k + 1, Len(front))

slice(seq, count) == SubSeq(seq, 1, Min(Len(seq), count))

\* the elements whose key occurs at no earlier index
uniqueBy(seq, key(_)) ==
  KeepAt(seq, LAMBDA s, i : \A k \in 1..(i - 1) : key(s[k]) # key(s[i]))

\* skillGapService.getAggregatedRecommendations, given the rows findMany
\* returns
getAggregatedRecommendations(skillGaps) ==
  IF Len(skillGaps) = 0
  THEN [topMissingSkills |-> <<>>, recommendedCourses |-> <<>>,
        resumeImprovements |-> <<>>]
  ELSE LET sorted == sortByCount(skillCountsOf(flatMap(skillGaps, "missingSkills")))
           top == slice(sorted, TopCount)
       IN  [topMissingSkills |-> [i \in DOMAIN top |-> top[i].skill],
            recommendedCourses |->
              slice(uniqueBy(flatMap(skillGaps, "courseRecommendations"),
                             LAMBDA c : c.courseName), TopCount),
            resumeImprovements |->
              slice(uniqueBy(flatMap(skillGaps, "resumeImprovements"),
                             LAMBDA t : t), TopCount)]

GapRows == UNION {[1..n -> SkillGapSamples] : n \in 0..MaxGaps}

GetAggregatedRecommendations(skillGaps) ==
  Applied("getAggregatedRecommendations", <<skillGaps>>,
          getAggregatedRecommendations(skillGaps))

NextAggregate ==
  \E skillGaps \in GapRows : GetAggregatedRecommendations(skillGaps)

SpecAggregate == InitScore /\ [][NextAggregate]_vars

(***************************************************************************)
(* Claims about the aggregation                                            *)
(***************************************************************************)
\* the missing-skill entries of all the rows
EntriesOf(skillGaps) ==
  UNION {{<<g, i>> : i \in DOMAIN skillGaps[g].missingSkills} : g \in DOMAIN skillGaps}

MissingIn(skillGaps) ==
  {skillGaps[e[1]].missingSkills[e[2]].skill : e \in EntriesOf(skillGaps)}

ClaimedWeight(importance) ==
  IF importance = "high" THEN 3 ELSE IF importance = "medium" THEN 2 ELSE 1

RECURSIVE WeightOver(_, _, _)
WeightOver(skillGaps, skill, entries) ==
  IF entries = {} THEN 0
  ELSE LET e == CHOOSE x \in entries : TRUE
           s == skillGaps[e[1]].missingSkills[e[2]]
       IN  (IF s.skill = skill THEN ClaimedWeight(s.importance) ELSE 0)
           + WeightOver(skillGaps, skill, entries \ {e})

\* the sum of the weights of the skill's entries over all the rows
WeightedSum(skillGaps, skill) == WeightOver(skillGaps, skill, EntriesOf(skillGaps))

\* C25: the top missing skills are the 10 skills of the largest weighted
\* sums (high 3, medium 2, low 1, summed over all gap records), largest
\* first; with no gap record the three lists are empty
C25_TopMissingSkillsByWeight ==
  lastOp.op = "getAggregatedRecommendations" =>
    LET skillGaps == lastOp.args[1]
        top == Returned.topMissingSkills
        W(skill) == WeightedSum(skillGaps, skill)
    IN  /\ skillGaps = <<>> =>
             /\ Returned.topMissingSkills = <<>>
             /\ Returned.recommendedCourses = <<>>
             /\ Returned.resumeImprovements = <<>>
        /\ NoDuplicates(top)
        /\ Range(top) \subseteq MissingIn(skillGaps)
        /\ Len(top) = Min(10, Cardinality(MissingIn(skillGaps)))
        /\ \A i \in 1..(Len(top) - 1) : W(top[i]) >= W(top[i + 1])
        /\ \A s \in MissingIn(skillGaps) \ Range(top) :
             \A t \in Range(top) : W(s) <= W(t)

\* twelve skills are missing, and the ten returned are led by a skill that
\* is missing twice
C25_Witness ==
  /\ lastOp.op = "getAggregatedRecommendations"
  /\ Cardinality(MissingIn(lastOp.args[1])) = 12
  /\ Len(Returned.topMissingSkills) = 10
  /\ WeightedSum(lastOp.args[1], Returned.topMissingSkills[1]) >= 4
  /\ WeightedSum(lastOp.args[1], Returned.topMissingSkills[10]) = 1

\* no gap record
C25_WitnessNoRecords ==
  /\ lastOp.op = "getAggregatedRecommendations"
  /\ lastOp.args[1] = <<>>
  /\ Returned.topMissingSkills = <<>>

(***************************************************************************)
(* services/matching.service.ts: updateMatchStatus beside calculateMatch   *)
(***************************************************************************)
\* CREATE TYPE "MatchStatus": the values the column status accepts
MatchStatus == {"PENDING", "CALCULATED", "SHORTLISTED", "REJECTED"}

\* new Date()
ADate == [date |-> TRUE]

\* a bug the claims must notice: the time of the shortlisting is kept
shortlistedAtFor_kept(old, status) ==
  IF status = "SHORTLISTED" THEN ADate ELSE old

\* shortlistedAt: status === 'SHORTLISTED' ? new Date() : null
shortlistedAtFor(old, status) ==
  IF status = "SHORTLISTED" THEN ADate ELSE Null

\* PATCH /:matchId/status: matchingService.updateMatchStatus, one
\* prisma.matchScore.update (with no row of the id it throws and nothing
\* is written); the controller passes req.body.status as it is
UpdateMatchStatus(matchId, status) ==
  /\ \E m \in matchScores : m.id = matchId
  /\ LET old == CHOOSE m \in matchScores : m.id = matchId
         row == [old EXCEPT !.status = status,
                            !.shortlistedAt = shortlistedAtFor(@, status)]
     IN  matchScores' = (matchScores \ {old}) \cup {row}
  /\ UNCHANGED <<ocrVars, trackerVars, dbVars, runVars, jobAnalyses, groqApiKey, calls>>

NextShortlist ==
  \/ \E j \in MatchJobs, a \in JobAnalysisSamples : AnalyzeJob(j, a)
  \/ \E r \in MatchResumes, j \in MatchJobs : BeginCalculateMatch(r, j)
  \/ \E c \in 1..MaxCalls, g \in GenerateTextOutcomes \cup {NotGenerated} :
       Explain(c, g)
  \/ \E c \in 1..MaxCalls : Upsert(c)
  \/ \E m \in 1..MaxCalls, status \in MatchStatus : UpdateMatchStatus(m, status)

SpecShortlist == InitMatch /\ [][NextShortlist]_vars

(***************************************************************************)
(* Claims about the shortlist                                              *)
(***************************************************************************)
\* C29: a row of match_scores has shortlistedAt set exactly if its status is
\* SHORTLISTED, whatever calls of updateMatchStatus and calculateMatch have
\* been made on the pair
C29_ShortlistedAtIffShortlisted ==
  \A m \in matchScores : (m.shortlistedAt # Null) <=> (m.status = "SHORTLISTED")

\* updateMatchStatus alone keeps the two columns together
UpdateMatchStatusKeepsThemTogether ==
  [][\A matchId \in 1..MaxCalls, status \in MatchStatus :
       UpdateMatchStatus(matchId, status) =>
         \A m \in matchScores' :
           m.id = matchId => ((m.shortlistedAt # Null) <=> (m.status = "SHORTLISTED"))]_vars

\* a score computed again leaves the status of the row as it was
RecomputeKeepsTheDecision ==
  [][\A c \in 1..MaxCalls :
       Upsert(c) =>
         \A old \in matchScores : \A m \in matchScores' :
           m.id = old.id => m.status = old.status]_vars

(***************************************************************************)
(* Claims about the runs of one queue job and of one resume                *)
(***************************************************************************)
\* C26: once the progress record of a job has stage COMPLETED or FAILED, no
\* later step for that job, a retry of the queue job included, changes its
\* stage or its overall percent
C26_TerminalIsAbsorbing ==
  [][\A j \in JobIds :
       (hasProgress(redis, j) /\ Stored(j).stage \in Terminal)
         => /\ hasProgress(redis', j)
            /\ getProgress(redis', j).stage = Stored(j).stage
            /\ getProgress(redis', j).progress = Stored(j).progress]_vars

\* the same within one attempt of the queue job: from the terminal record
\* up to the end of the attempt
TerminalKeptWithinAttempt ==
  [][\A j \in JobIds :
       (hasProgress(redis, j) /\ Stored(j).stage \in Terminal
          /\ j \in ActiveJobs /\ pc[j] # "initializeJob")
         => /\ hasProgress(redis', j)
            /\ getProgress(redis', j).stage = Stored(j).stage
            /\ getProgress(redis', j).progress = Stored(j).progress]_vars

\* processResume is executing for the queue job: the worker has called it
\* and it has neither returned nor thrown
Executing(j) == j \in ActiveJobs /\ pc[j] \notin {"idle", "returned", "thrown"}

\* C27: at most one run of processResume per resume is executing at any
\* time, whatever the interleaving of queue retries and reprocessResume
C27_OneRunPerResume ==
  \A j \in JobIds : \A k \in JobIds :
    (Executing(j) /\ Executing(k) /\ ResumeOf(j) = ResumeOf(k)) => j = k

\* a reprocess request is accepted only in status FAILED
ReprocessOnlyWhenFailed ==
  [][\A r \in RunResumes :
       ReprocessResume(r) => resumes[r].status = "FAILED"]_vars

(***************************************************************************)
(* controllers/resume.controller.ts: GET /resumes/:id/progress             *)
(***************************************************************************)
\* resumeController.getProgress for a resume of the user, answered from the
\* database and the store as they are: the stored progress of the job the
\* index names with isComplete added, or the fallback built of the status
resumeController_getProgress(rows, store, resumeId) ==
  LET status == rows[resumeId].status
      progress == getProgressByResumeId(store, resumeId)
  IN  IF ~hasProgressByResumeId(store, resumeId)
      THEN [found |-> FALSE,
            resumeId |-> resumeId,
            stage |-> status,
            progress |-> IF status = "ANALYZED" THEN 100
                         ELSE IF status = "FAILED" THEN 0 ELSE 50,
            isComplete |-> status = "ANALYZED" \/ status = "FAILED"]
      ELSE [found |-> TRUE,
            resumeId |-> progress.resumeId,
            stage |-> progress.stage,
            progress |-> progress.progress,
            isComplete |-> progress.stage = "COMPLETED" \/ progress.stage = "FAILED"]

\* C28: while the stored status of a resume is PENDING or PROCESSING the
\* progress query for it answers isComplete = false; after reprocessResume
\* it does not answer with the FAILED record of the run before
C28_PendingIsNotComplete ==
  \A r \in DOMAIN resumes :
    resumes[r].status \in {"PENDING", "PROCESSING"}
      => ~resumeController_getProgress(resumes, redis, r).isComplete

====
